---- MODULE Spec2Model ----
(***************************************************************************)
(* Model of the obscureX agent: the dual-layer memory store of             *)
(* ObscureXAgent (agent.js) and the autonomous decision loop of            *)
(* AutonomousOrchestrator (autonomous_agent.js).                           *)
(*                                                                         *)
(* Metrics are natural numbers in units of 0.01 (4 stands for 0.04); the   *)
(* JavaScript values number, Infinity, NaN, undefined and null are tagged   *)
(* records.  The samples handed to the Strategy Recommender are in units   *)
(* of 0.0001, so that its threshold 0.001 is 10 and an average is a        *)
(* fraction of integers.  An entry's absent `history` field is the empty   *)
(* sequence, which is how every reader of the field treats it              *)
(* (`entry.history || []`).  Timestamps are ticks of a logical clock.      *)
(***************************************************************************)
EXTENDS Integers, Sequences, FiniteSets, TLC

VARIABLES
    alive,            \* an agent process exists
    sessionId,        \* ObscureXAgent.sessionId (number of the run)
    clock,            \* logical time: number of writes issued so far
    memory,           \* ObscureXAgent.memory.entries    (session layer)
    longTermMemory,   \* ObscureXAgent.longTermMemory.entries (persistent layer)
    memoryFile,       \* the file at memoryPath
    longTermFile,     \* the file at longTermMemoryPath
    lastWrite,        \* what the last store call returned to its caller
    lastRead,         \* what the last retrieve or search since then returned
    ltmWrites,        \* per key, the (value, metadata) pairs whose write returned
    anthropic,        \* ObscureXAgent.anthropic is set (advisory service configured)
    tools,            \* names of the tools registered with the agent
    pc,               \* position of runAutonomous: "idle", "loop", "done", "threw";
                      \* "iteration", "decided": before and after the decision
                      \* of one pass through the loop body
    config,           \* the config argument of runAutonomous
    currentState,     \* the currentState object of runAutonomous
    result,           \* the summary returned by runAutonomous
    tested,           \* (artifact, mse) pairs: what the executor ran and reported
    startBest,        \* the (metric, artifact) pair recovered at startup
    analyzed,         \* a direct analyzeContext call: its inputs and what came back
    recommended,      \* a recommendOptimizationStrategy call: inputs and result
    toolCall,         \* a direct executeTool call: its inputs and what came back
    loop,             \* the local variables of runOptimizationLoop
    peer              \* a second ObscureXAgent built on the same long-term file

memVars == <<alive, sessionId, clock, memory, longTermMemory, memoryFile,
             longTermFile, lastWrite, lastRead, ltmWrites>>
agentVars == <<anthropic, tools>>
runVars == <<pc, config, currentState, result, tested, startBest>>
ctxVars == <<analyzed, recommended>>
toolVars == <<toolCall, loop, peer>>
vars == <<alive, sessionId, clock, memory, longTermMemory, memoryFile,
          longTermFile, lastWrite, lastRead, ltmWrites, anthropic, tools, pc, config,
          currentState, result, tested, startBest, analyzed, recommended,
          toolCall, loop, peer>>

----------------------------------------------------------------------------
(* Bounds *)

MaxWrites == 3
MaxSessions == 2
MaxIterationsBound == 2

Keys == {"k1", "K2"}
Values == {"v1", "v2"}

\* `error_iteration_${n}`
ErrorKey(n) ==
    <<"error_iteration_1", "error_iteration_2", "error_iteration_3",
      "error_iteration_4", "error_iteration_5">>[n]

RunKeys == {"autonomous_config", "best_pipeline_autonomous",
            "autonomous_final_result", "best_pipeline"}
           \cup {ErrorKey(n) : n \in 1..(MaxIterationsBound + 1)}

AllKeys == Keys \cup RunKeys

----------------------------------------------------------------------------
(* JavaScript values *)

Num(n) == [t |-> "number", v |-> n]
Infinity == [t |-> "Infinity", v |-> 0]
NaN == [t |-> "NaN", v |-> 0]
undefined == [t |-> "undefined", v |-> 0]
null == [t |-> "null", v |-> 0]

IsNumber(x) == x.t = "number"

\* a < b as JavaScript evaluates it on numbers, Infinity, NaN and undefined
JsLt(a, b) ==
    IF a.t \in {"NaN", "undefined"} \/ b.t \in {"NaN", "undefined"} THEN FALSE
    ELSE IF a.t = "Infinity" THEN FALSE
    ELSE IF b.t = "Infinity" THEN TRUE
    ELSE a.v < b.v

\* a <= b as JavaScript evaluates it
JsLe(a, b) ==
    IF a.t \in {"NaN", "undefined"} \/ b.t \in {"NaN", "undefined"} THEN FALSE
    ELSE IF b.t = "Infinity" THEN TRUE
    ELSE IF a.t = "Infinity" THEN FALSE
    ELSE a.v <= b.v

\* ToBoolean of a metric value: null, undefined, NaN and 0 are falsy
Truthy(x) == x.t = "Infinity" \/ (x.t = "number" /\ x.v # 0)

----------------------------------------------------------------------------
(* Memory store: agent.js *)

NoFile == [status |-> "absent", entries |-> <<>>]

\* Array.prototype.findIndex(e => e.key === key); 0 stands for -1
FindIndex(entries, key) ==
    IF \E i \in 1..Len(entries) : entries[i].key = key
    THEN CHOOSE i \in 1..Len(entries) :
            /\ entries[i].key = key
            /\ \A j \in 1..(i - 1) : entries[j].key # key
    ELSE 0

HasKey(entries, key) == FindIndex(entries, key) # 0

\* _loadMemory: the parsed file, or a fresh store when the file is missing
\* or does not parse
LoadMemory(file) ==
    IF file.status = "ok" THEN file.entries ELSE <<>>

FlushOutcomes == {"ok", "open_failed", "write_failed"}

\* _saveMemory: writeFileSync inside try/catch; an error is only logged.
\* "open_failed" leaves the file as it was, "write_failed" leaves it torn.
SaveMemory(file, entries, io) ==
    CASE io = "ok" -> [status |-> "ok", entries |-> entries]
      [] io = "open_failed" -> file
      [] OTHER -> [status |-> "torn", entries |-> <<>>]

SessionEntry(key, value, type, sid, ts) ==
    [key |-> key, value |-> value,
     metadata |-> [type |-> type, sessionId |-> sid, timestamp |-> ts]]

\* storeMemory, in-memory part: overwrite in place or push
StoreMemoryEntries(entries, key, value, type, sid, ts) ==
    LET entry == SessionEntry(key, value, type, sid, ts)
        existingIndex == FindIndex(entries, key)
    IN  IF existingIndex # 0
        THEN [entries EXCEPT ![existingIndex] = entry]
        ELSE Append(entries, entry)

LongTermEntry(key, value, type, sid, ts) ==
    [key |-> key, value |-> value,
     metadata |-> [type |-> type, sessionId |-> sid, timestamp |-> ts,
                   persistent |-> TRUE],
     history |-> <<>>]

\* storeLongTermMemory, in-memory part.  The superseded pair is pushed onto
\* the history of the OLD entry object, and the slot is then assigned the new
\* entry object, which is built without a history field.
StoreLongTermEntries(entries, key, value, type, sid, ts) ==
    LET entry == LongTermEntry(key, value, type, sid, ts)
        existingIndex == FindIndex(entries, key)
    IN  IF existingIndex # 0
        THEN LET old == entries[existingIndex]
                 pushed == [entries EXCEPT ![existingIndex].history =
                               Append(@, [value |-> old.value,
                                          metadata |-> old.metadata])]
             IN  [pushed EXCEPT ![existingIndex] = entry]
        ELSE Append(entries, entry)

\* a retrieve that hands back whatever entry comes first
RetrieveMemory_FirstEntry(entries, key) ==
    IF entries # <<>>
    THEN [success |-> TRUE, value |-> entries[1].value,
          metadata |-> entries[1].metadata]
    ELSE [success |-> FALSE, value |-> null]

\* retrieveMemory / retrieveLongTermMemory
RetrieveMemory(entries, key) ==
    IF HasKey(entries, key)
    THEN LET e == entries[FindIndex(entries, key)]
         IN  [success |-> TRUE, value |-> e.value, metadata |-> e.metadata]
    ELSE [success |-> FALSE, value |-> null]

RetrieveLongTermMemory(entries, key) ==
    IF HasKey(entries, key)
    THEN LET e == entries[FindIndex(entries, key)]
         IN  [success |-> TRUE, value |-> e.value, metadata |-> e.metadata,
              history |-> e.history]
    ELSE [success |-> FALSE, value |-> null]

Queries == {"K", "v2", "1", "zz"}

\* String.prototype.toLowerCase over the keys, value texts and queries
StringToLowerCase(text) ==
    CASE text = "K2" -> "k2"
      [] text = "K" -> "k"
      [] OTHER -> text

\* JSON.stringify of a stored value: a string value is wrapped in quotes
JsonStringify(value) ==
    CASE value = "v1" -> "\"v1\""
      [] value = "v2" -> "\"v2\""
      [] OTHER -> "{}"

\* String.prototype.includes, case-sensitive, over the texts a layer holds
StringIncludes(text, query) ==
    \/ text = query
    \/ text = "k1" /\ query \in {"k", "1"}
    \/ text = "k2" /\ query \in {"k", "2"}
    \/ text = "K1" /\ query \in {"K", "1"}
    \/ text = "K2" /\ query \in {"K", "2"}
    \/ text = "\"v1\"" /\ query \in {"v", "1", "v1"}
    \/ text = "\"v2\"" /\ query \in {"v", "2", "v2"}

\* a filter that looks at the keys only
EntryMatches_KeyOnly(e, query) ==
    LET queryLower == StringToLowerCase(query)
    IN  StringIncludes(StringToLowerCase(e.key), queryLower)

\* the filter callback: keyMatch || valueMatch
EntryMatches(e, query) ==
    LET queryLower == StringToLowerCase(query)
        keyMatch == StringIncludes(StringToLowerCase(e.key), queryLower)
        valueMatch ==
            StringIncludes(StringToLowerCase(JsonStringify(e.value)), queryLower)
    IN  keyMatch \/ valueMatch

\* searchMemory: the entries whose key or value text contains the query
RECURSIVE SearchMemory(_, _)
SearchMemory(entries, query) ==
    IF entries = <<>> THEN <<>>
    ELSE LET e == Head(entries)
             rest == SearchMemory(Tail(entries), query)
         IN  IF EntryMatches(e, query)
             THEN <<[key |-> e.key, value |-> e.value, metadata |-> e.metadata]>>
                  \o rest
             ELSE rest

\* searchLongTermMemory: the same filter, with the history count
RECURSIVE SearchLongTermMemory(_, _)
SearchLongTermMemory(entries, query) ==
    IF entries = <<>> THEN <<>>
    ELSE LET e == Head(entries)
             rest == SearchLongTermMemory(Tail(entries), query)
         IN  IF EntryMatches(e, query)
             THEN <<[key |-> e.key, value |-> e.value, metadata |-> e.metadata,
                     historyCount |-> Len(e.history)]>> \o rest
             ELSE rest

NoWrite == [layer |-> "none"]
NoRead == [op |-> "none"]
NotAnalyzed == [done |-> FALSE]
NotRecommended == [done |-> FALSE]
NoToolCall == [done |-> FALSE]
NoLoop ==
    [run |-> 0, iteration |-> 0, currentCode |-> "null", bestMSE |-> Infinity,
     bestCode |-> "null", lastMSE |-> null, measured |-> FALSE]
NoPeer == [alive |-> FALSE, sessionId |-> 0, born |-> 0, longTermMemory |-> <<>>]

\* no getExecutionOptions call, no traditional loop, no second agent
IdleTools ==
    /\ toolCall = NoToolCall
    /\ loop = NoLoop
    /\ peer = NoPeer

\* the value a store call hands back: always success: true
StoreReturn(layer, key, value, io) ==
    [layer |-> layer, key |-> key, value |-> value, success |-> TRUE,
     flush |-> io]

InitMem ==
    /\ alive = TRUE
    /\ sessionId = 1
    /\ clock = 0
    /\ memory = <<>>
    /\ longTermMemory = <<>>
    /\ memoryFile = NoFile
    /\ longTermFile = NoFile
    /\ lastWrite = NoWrite
    /\ lastRead = NoRead
    /\ ltmWrites = [k \in AllKeys |-> <<>>]

\* storeMemory(key, value) with the flush ending as io
StoreMemory(key, value, io) ==
    /\ alive
    /\ clock < MaxWrites
    /\ clock' = clock + 1
    /\ memory' = StoreMemoryEntries(memory, key, value, "none", sessionId, clock')
    /\ memoryFile' = SaveMemory(memoryFile, memory', io)
    /\ lastWrite' = StoreReturn("session", key, value, io)
    /\ lastRead' = NoRead
    /\ UNCHANGED <<alive, sessionId, longTermMemory, longTermFile, ltmWrites>>
    /\ UNCHANGED <<agentVars, runVars, ctxVars, toolVars>>

\* storeLongTermMemory(key, value) with the flush ending as io
StoreLongTermMemory(key, value, io) ==
    /\ alive
    /\ clock < MaxWrites
    /\ clock' = clock + 1
    /\ longTermMemory' =
          StoreLongTermEntries(longTermMemory, key, value, "none", sessionId, clock')
    /\ longTermFile' = SaveMemory(longTermFile, longTermMemory', io)
    /\ lastWrite' = StoreReturn("persistent", key, value, io)
    /\ lastRead' = NoRead
    /\ ltmWrites' = [ltmWrites EXCEPT ![key] =
          Append(@, [value |-> value,
                     metadata |-> LongTermEntry(key, value, "none", sessionId, clock').metadata])]
    /\ UNCHANGED <<alive, sessionId, memory, memoryFile>>
    /\ UNCHANGED <<agentVars, runVars, ctxVars, toolVars>>

\* new ObscureXAgent(...) on the same two paths: both layers are loaded from
\* their files and a new sessionId is drawn
NewAgent ==
    /\ sessionId < MaxSessions
    /\ alive' = TRUE
    /\ sessionId' = sessionId + 1
    /\ memory' = LoadMemory(memoryFile)
    /\ longTermMemory' = LoadMemory(longTermFile)
    /\ lastWrite' = NoWrite
    /\ lastRead' = NoRead
    /\ UNCHANGED <<clock, memoryFile, longTermFile, ltmWrites>>
    /\ UNCHANGED <<agentVars, runVars, ctxVars, toolVars>>

\* retrieveMemory(key) / retrieveLongTermMemory(key)
Retrieve(layer, key) ==
    /\ alive
    /\ lastRead' =
          [op |-> "retrieve", layer |-> layer, key |-> key,
           result |-> IF layer = "session"
                      THEN RetrieveMemory(memory, key)
                      ELSE RetrieveLongTermMemory(longTermMemory, key)]
    /\ UNCHANGED <<alive, sessionId, clock, memory, longTermMemory, memoryFile,
                   longTermFile, lastWrite, ltmWrites>>
    /\ UNCHANGED <<agentVars, runVars, ctxVars, toolVars>>

\* searchMemory(query) / searchLongTermMemory(query)
Search(layer, query) ==
    /\ alive
    /\ LET results == IF layer = "session"
                      THEN SearchMemory(memory, query)
                      ELSE SearchLongTermMemory(longTermMemory, query)
       IN  lastRead' =
              [op |-> "search", layer |-> layer, key |-> query,
               result |-> [success |-> TRUE, results |-> results,
                           count |-> Len(results)]]
    /\ UNCHANGED <<alive, sessionId, clock, memory, longTermMemory, memoryFile,
                   longTermFile, lastWrite, ltmWrites>>
    /\ UNCHANGED <<agentVars, runVars, ctxVars, toolVars>>

\* the process dies while storeMemory is inside writeFileSync
CrashInStoreMemory(key, value) ==
    /\ alive
    /\ clock < MaxWrites
    /\ clock' = clock + 1
    /\ alive' = FALSE
    /\ memory' = <<>>
    /\ longTermMemory' = <<>>
    /\ memoryFile' = [status |-> "torn", entries |-> <<>>]
    /\ lastWrite' = NoWrite
    /\ lastRead' = NoRead
    /\ UNCHANGED <<sessionId, longTermFile, ltmWrites>>
    /\ UNCHANGED <<agentVars, runVars, ctxVars, toolVars>>

\* the process dies while storeLongTermMemory is inside writeFileSync: the
\* file has been truncated and only part of the document is on disk
CrashInStoreLongTermMemory(key, value) ==
    /\ alive
    /\ clock < MaxWrites
    /\ clock' = clock + 1
    /\ alive' = FALSE
    /\ memory' = <<>>
    /\ longTermMemory' = <<>>
    /\ longTermFile' = [status |-> "torn", entries |-> <<>>]
    /\ lastWrite' = NoWrite
    /\ lastRead' = NoRead
    /\ UNCHANGED <<sessionId, memoryFile, ltmWrites>>
    /\ UNCHANGED <<agentVars, runVars, ctxVars, toolVars>>

\* the process dies between two operations
Crash ==
    /\ alive
    /\ alive' = FALSE
    /\ memory' = <<>>
    /\ longTermMemory' = <<>>
    /\ lastWrite' = NoWrite
    /\ lastRead' = NoRead
    /\ UNCHANGED <<sessionId, clock, memoryFile, longTermFile, ltmWrites>>
    /\ UNCHANGED <<agentVars, runVars, ctxVars, toolVars>>

----------------------------------------------------------------------------
(* Tool registry and executeTool: agent.js, tools/toolLoader.js *)

\* the 13 tools the ObscureXAgent constructor registers
BuiltinTools ==
    {"listTechnicalIndicators", "addTechnicalIndicator",
     "removeTechnicalIndicator", "testMLPipeline", "generateMLPipeline",
     "listPythonModules", "installPythonModule", "storeMemory",
     "retrieveMemory", "searchMemory", "storeLongTermMemory",
     "retrieveLongTermMemory", "searchLongTermMemory"}

\* the tools loadTools() adds from the analysis and autonomy categories
LoaderTools ==
    {"analyzeContext", "getExecutionOptions", "recommendOptimizationStrategy",
     "executeAutonomousDecision", "analyzeBinanceData",
     "calculateCryptoIndicators", "downloadBinancePriceHistory"}

Threw == [outcome |-> "throw"]
Returned(r) == [outcome |-> "return", result |-> r]

\* an executeTool that passes the tool's own success flag on as its own
ExecuteTool_Unwraps(registry, toolName, toolOutcome) ==
    IF toolName \notin registry
    THEN [thrown |-> TRUE, success |-> FALSE, tool |-> toolName,
          result |-> null, error |-> "Tool not found"]
    ELSE IF toolOutcome.outcome = "throw"
         THEN [thrown |-> FALSE, success |-> FALSE, tool |-> toolName,
               result |-> null, error |-> "error.message"]
         ELSE [thrown |-> FALSE, success |-> toolOutcome.result.success,
               tool |-> toolName, result |-> toolOutcome.result, error |-> ""]

\* executeTool(toolName, params), the tool itself ending as toolOutcome.
\* thrown: no such tool.  Otherwise a wrapper {success, tool, result} or
\* {success, tool, error}.
ExecuteTool(registry, toolName, toolOutcome) ==
    IF toolName \notin registry
    THEN [thrown |-> TRUE, success |-> FALSE, tool |-> toolName,
          result |-> null, error |-> "Tool not found"]
    ELSE IF toolOutcome.outcome = "throw"
         THEN [thrown |-> FALSE, success |-> FALSE, tool |-> toolName,
               result |-> null, error |-> "error.message"]
         ELSE [thrown |-> FALSE, success |-> TRUE, tool |-> toolName,
               result |-> toolOutcome.result, error |-> ""]

----------------------------------------------------------------------------
(* Context Analyzer: tools/autonomy/analyzeContext.js *)

\* action texts an advisory reply may carry
ActionTexts ==
    {"Optimize_Pipeline", "add_features", "try_different_model",
     "continue_current_approach", "download_data", "initialize_run",
     "evaluate_results", "hyperparameter_tuning"}

\* String.prototype.toLowerCase on the action texts
ToLowerCase(a) == IF a = "Optimize_Pipeline" THEN "optimize_pipeline" ELSE a

\* String.prototype.includes on the lower-cased action texts
Includes(a, kw) ==
    kw \in (CASE a = "optimize_pipeline" -> {"optim", "optimize", "pipeline"}
              [] a = "add_features" -> {"feature"}
              [] a = "try_different_model" -> {"model"}
              [] a = "download_data" -> {"data", "download"}
              [] a = "initialize_run" -> {"init"}
              [] a = "evaluate_results" -> {"eval"}
              [] OTHER -> {})

NoAction == "<undefined>"
NullDecision == [isNull |-> TRUE, action |-> NoAction, confidence |-> "none"]
Decision(a, c) == [isNull |-> FALSE, action |-> a, confidence |-> c]

\* what anthropic.messages.create yields: an error (network, timeout), text
\* that is not JSON, or JSON text (an object with or without an action, or
\* the JSON value null)
Replies ==
    {[kind |-> "error", value |-> NullDecision],
     [kind |-> "text", value |-> NullDecision],
     [kind |-> "json", value |-> NullDecision]}
    \cup {[kind |-> "json", value |-> Decision(a, "High")] :
             a \in ActionTexts \cup {NoAction}}

\* _analyzeWithAI: JSON.parse of the reply, or the structured-text fallback
AnalyzeWithAI(reply) ==
    IF reply.kind = "json" THEN reply.value
    ELSE Decision("analyze_response", "Medium")

\* analyzeContext.execute answering with a default decision where it throws
AnalyzeContext_Fallback(client, reply) ==
    IF ~client \/ reply.kind = "error"
    THEN Returned([decision |-> Decision("continue_optimization", "Medium")])
    ELSE Returned([decision |-> AnalyzeWithAI(reply)])

\* analyzeContext.execute: throws without a client, and lets a failed
\* service call propagate
AnalyzeContext(client, reply) ==
    IF ~client THEN Threw
    ELSE IF reply.kind = "error" THEN Threw
    ELSE Returned([decision |-> AnalyzeWithAI(reply)])

----------------------------------------------------------------------------
(* Strategy Recommender: tools/autonomy/recommendOptimizationStrategy.js *)

MaxHistory == 6
WindowSize == 5
Epsilon == 10

Samples == {1990, 2000, 2010}

\* the histories of the README and of the demo, and every short history
Histories ==
    UNION {[1..n -> Samples] : n \in 0..MaxHistory}
    \cup {<<2500, 2200, 2000, 1800, 1500>>, <<2000, 1999, 2001, 1998>>}

IterationNumbers == {5, 9, 10, 19, 20}

\* Array.prototype.slice(-n)
Slice(h, n) == SubSeq(h, IF Len(h) > n THEN Len(h) - n + 1 ELSE 1, Len(h))

\* Array.prototype.reduce((a, b) => a + b, 0)
RECURSIVE Reduce(_, _)
Reduce(q, acc) == IF q = <<>> THEN acc ELSE Reduce(Tail(q), acc + q[1])

Abs(x) == IF x < 0 THEN -x ELSE x

\* a quotient num / den of integers, den > 0
Quotient(num, den) == [num |-> num, den |-> den]
QuotientGt(q, x) == q.num > x * q.den
QuotientAbsLt(q, x) == Abs(q.num) < x * q.den

NoTrends == [trend |-> "absent", improvement |-> FALSE, stagnant |-> FALSE,
             avgImprovement |-> Quotient(0, 0)]

\* _analyzeTrends over every sample of the history
AnalyzeTrends_WholeHistory(mseHistory) ==
    IF Len(mseHistory) < 2
    THEN [trend |-> "insufficient_data", improvement |-> FALSE,
          stagnant |-> FALSE, avgImprovement |-> Quotient(0, 0)]
    ELSE
      LET improvements == [i \in 1..(Len(mseHistory) - 1) |->
                              mseHistory[i] - mseHistory[i + 1]]
          avgImprovement == Quotient(Reduce(improvements, 0), Len(improvements))
      IN  [trend |-> IF QuotientGt(avgImprovement, 0)
                     THEN "improving" ELSE "declining",
           improvement |-> QuotientGt(avgImprovement, 0),
           stagnant |-> QuotientAbsLt(avgImprovement, Epsilon),
           avgImprovement |-> avgImprovement]

\* _analyzeTrends
AnalyzeTrends(mseHistory) ==
    IF Len(mseHistory) < 2
    THEN [trend |-> "insufficient_data", improvement |-> FALSE,
          stagnant |-> FALSE, avgImprovement |-> Quotient(0, 0)]
    ELSE
      LET recent == Slice(mseHistory, WindowSize)
          improvements == [i \in 1..(Len(recent) - 1) |->
                              recent[i] - recent[i + 1]]
          avgImprovement == Quotient(Reduce(improvements, 0), Len(improvements))
          isImproving == QuotientGt(avgImprovement, 0)
          isStagnant == QuotientAbsLt(avgImprovement, Epsilon)
      IN  [trend |-> IF isImproving THEN "improving" ELSE "declining",
           improvement |-> isImproving,
           stagnant |-> isStagnant,
           avgImprovement |-> avgImprovement]

Recommendation(strategy, technique, tryDifferentApproach) ==
    [isNull |-> FALSE, strategy |-> strategy, technique |-> technique,
     tryDifferentApproach |-> tryDifferentApproach]
NullRecommendation ==
    [isNull |-> TRUE, strategy |-> "", technique |-> "",
     tryDifferentApproach |-> FALSE]

\* the ladder with its boundaries moved by one
FallbackStrategy_OffByOne(mseHistory, iterationNumber) ==
    LET trends == AnalyzeTrends(mseHistory)
        differ == trends.stagnant \/ ~trends.improvement
    IN  IF trends.stagnant
        THEN Recommendation("Try different approach",
                 "Switch to ensemble methods or different model architecture", differ)
        ELSE IF ~trends.improvement
        THEN Recommendation("Simplify and regularize",
                 "Add regularization, reduce model complexity", differ)
        ELSE IF iterationNumber <= 10
        THEN Recommendation("Hyperparameter tuning",
                 "Apply GridSearchCV for optimal parameters", differ)
        ELSE IF iterationNumber <= 20
        THEN Recommendation("Feature engineering",
                 "Add polynomial features and feature interactions", differ)
        ELSE Recommendation("Ensemble methods",
                 "Combine multiple models with voting or stacking", differ)

\* the ladder with the iteration rungs tried before the trend rungs
FallbackStrategy_IterationFirst(mseHistory, iterationNumber) ==
    LET trends == AnalyzeTrends(mseHistory)
        differ == trends.stagnant \/ ~trends.improvement
    IN  IF iterationNumber < 10
        THEN Recommendation("Hyperparameter tuning",
                 "Apply GridSearchCV for optimal parameters", differ)
        ELSE IF trends.stagnant
        THEN Recommendation("Try different approach",
                 "Switch to ensemble methods or different model architecture", differ)
        ELSE IF ~trends.improvement
        THEN Recommendation("Simplify and regularize",
                 "Add regularization, reduce model complexity", differ)
        ELSE IF iterationNumber < 20
        THEN Recommendation("Feature engineering",
                 "Add polynomial features and feature interactions", differ)
        ELSE Recommendation("Ensemble methods",
                 "Combine multiple models with voting or stacking", differ)

\* _fallbackStrategy: the rule table, first matching rung
FallbackStrategy(mseHistory, iterationNumber) ==
    LET trends == AnalyzeTrends(mseHistory)
        differ == trends.stagnant \/ ~trends.improvement
    IN  IF trends.stagnant
        THEN Recommendation("Try different approach",
                 "Switch to ensemble methods or different model architecture", differ)
        ELSE IF ~trends.improvement
        THEN Recommendation("Simplify and regularize",
                 "Add regularization, reduce model complexity", differ)
        ELSE IF iterationNumber < 10
        THEN Recommendation("Hyperparameter tuning",
                 "Apply GridSearchCV for optimal parameters", differ)
        ELSE IF iterationNumber < 20
        THEN Recommendation("Feature engineering",
                 "Add polynomial features and feature interactions", differ)
        ELSE Recommendation("Ensemble methods",
                 "Combine multiple models with voting or stacking", differ)

\* what anthropic.messages.create yields for the strategy prompt: an error,
\* text that JSON.parse rejects, the JSON value null, or a JSON object
StrategyReplies ==
    {[kind |-> "error", value |-> NullRecommendation],
     [kind |-> "text", value |-> NullRecommendation],
     [kind |-> "json", value |-> NullRecommendation],
     [kind |-> "json",
      value |-> Recommendation("Hyperparameter tuning",
                               "Apply GridSearchCV with 5-fold cross-validation",
                               FALSE)],
     [kind |-> "json",
      value |-> Recommendation("Bayesian optimization", "Optuna study", TRUE)]}

\* _getAIRecommendation: the parsed reply; the catch block answers a failed
\* call and a failed parse with the rule table
GetAIRecommendation(reply, mseHistory, iterationNumber) ==
    IF reply.kind = "json" THEN reply.value
    ELSE FallbackStrategy(mseHistory, iterationNumber)

\* recommendOptimizationStrategy.execute.  Without a client the rule table's
\* answer is the whole result ("bare"); with a client the result carries the
\* recommendation next to the trends ("wrapped").
RecommendOptimizationStrategy(client, reply, mseHistory, iterationNumber) ==
    IF ~client
    THEN [shape |-> "bare",
          recommendation |-> FallbackStrategy(mseHistory, iterationNumber),
          trends |-> NoTrends]
    ELSE [shape |-> "wrapped",
          recommendation |-> GetAIRecommendation(reply, mseHistory, iterationNumber),
          trends |-> AnalyzeTrends(mseHistory)]

----------------------------------------------------------------------------
(* Decision Engine: autonomous_agent.js *)

NoCode == "null"
PrevCode == "prev"
\* the pipeline text generated in iteration n (one text per call)
CodeOf(n) == <<"code1", "code2", "code3", "code4", "code5">>[n]
DataFiles == {NoCode, "data.csv"}
MseThresholds == {5}
MetricValues == {0, 4, 5, 20}
PrevBests == {4, 20}

\* generateMLPipeline in iteration n: fails, or yields code
GenerateOutcomes(n) == {Threw, Returned([code |-> CodeOf(n)])}

\* testMLPipeline: {success: false, mse: null} when the run fails, otherwise
\* mse is the number parsed from the output, NaN, or undefined
TestOutcomes ==
    {Returned([success |-> FALSE, mse |-> null])}
    \cup {Returned([success |-> TRUE, mse |-> m]) :
             m \in {Num(n) : n \in MetricValues} \cup {NaN, undefined}}

InitialState ==
    [phase |-> "initialization", iteration |-> 0, mse |-> null,
     mseHistory |-> <<>>, bestMSE |-> Infinity, bestCode |-> NoCode]

NoResult == [returned |-> FALSE]
NoConfig == [dataFile |-> NoCode, mseThreshold |-> 0, maxIterations |-> 0,
             verbose |-> FALSE]

BestValue(mse, code, iteration) ==
    [mse |-> mse, code |-> code, iteration |-> iteration]

\* the phase derived without the first-iteration clause
DerivePhase_TextOnly(action, s) ==
    IF Includes(action, "init") THEN "initialization"
    ELSE IF Includes(action, "optim") \/ Includes(action, "pipeline")
            \/ Includes(action, "model") THEN "optimization"
    ELSE IF Includes(action, "eval") \/ Includes(action, "test")
            \/ Includes(action, "final") THEN "evaluation"
    ELSE s.phase

\* _executeDecision, first half: the phase written into currentState
DerivePhase(action, s) ==
    IF Includes(action, "init") \/ s.iteration = 1 THEN "initialization"
    ELSE IF Includes(action, "optim") \/ Includes(action, "pipeline")
            \/ Includes(action, "model") THEN "optimization"
    ELSE IF Includes(action, "eval") \/ Includes(action, "test")
            \/ Includes(action, "final") THEN "evaluation"
    ELSE s.phase

\* _executeDecision, second half: which executor runs
Dispatch(action) ==
    IF Includes(action, "optim") \/ Includes(action, "pipeline")
       \/ Includes(action, "model") \/ Includes(action, "tune") THEN "optimization"
    ELSE IF Includes(action, "feature") \/ Includes(action, "indicator") THEN "feature"
    ELSE IF Includes(action, "data") \/ Includes(action, "download") THEN "data"
    ELSE "optimization"

\* a best-update that also fires on a tie
Improves_OrEqual(mse, s) == JsLe(mse, s.bestMSE)

\* the comparison of the best-update turned around
Improves_Reversed(mse, s) == JsLt(s.bestMSE, mse)

\* the test `mse < currentState.bestMSE` that guards the update of the best
Improves(mse, s) == JsLt(mse, s.bestMSE)

\* the state returned when a pipeline was generated but no metric taken
UntestedState(s, newCode) == [s EXCEPT !.bestCode = newCode]

\* the strategyRec argument of _executeDecision: null, or the wrapper that
\* executeTool built around the recommender's result
NoStrategyRec == [isNull |-> TRUE]
StrategyRec(wrapper) ==
    [isNull |-> FALSE, success |-> wrapper.success, result |-> wrapper.result]

\* strategyRec?.recommendation: the property is read on the wrapper itself
OptionalRecommendation(strategyRec) ==
    IF strategyRec.isNull THEN NullRecommendation
    ELSE IF "recommendation" \in DOMAIN strategyRec
         THEN strategyRec.recommendation
         ELSE NullRecommendation

DefaultStrategy == "Optimize pipeline"
DefaultTechnique == "decision.details || General optimization"
NoPrompt == [strategy |-> "", technique |-> ""]

\* the two halves of `${strategy}: ${technique}`
OptimizationPrompt(strategyRec) ==
    LET recommendation == OptionalRecommendation(strategyRec)
    IN  [strategy |-> IF recommendation.isNull \/ recommendation.strategy = ""
                      THEN DefaultStrategy ELSE recommendation.strategy,
         technique |-> IF recommendation.isNull \/ recommendation.technique = ""
                       THEN DefaultTechnique ELSE recommendation.technique]

\* _executeOptimization
ExecuteOptimization(registry, strategyRec, s, dataFile, gen, test) ==
    LET generateResult == ExecuteTool(registry, "generateMLPipeline", gen)
        prompt == OptimizationPrompt(strategyRec)
        none == [thrown |-> FALSE, nextState |-> s, stored |-> FALSE,
                 ran |-> FALSE, code |-> NoCode, mse |-> null,
                 calls |-> <<"generateMLPipeline">>, prompt |-> prompt]
    IN  IF generateResult.thrown
        THEN [none EXCEPT !.thrown = TRUE, !.calls = <<>>]
        ELSE IF ~generateResult.success THEN none
        ELSE
          LET newCode == generateResult.result.code
              testResult == ExecuteTool(registry, "testMLPipeline", test)
              both == <<"generateMLPipeline", "testMLPipeline">>
          IN  IF dataFile # NoCode /\ testResult.thrown
              THEN [none EXCEPT !.thrown = TRUE]
              ELSE IF dataFile # NoCode /\ testResult.success
                      /\ testResult.result.mse # null
              THEN LET mse == testResult.result.mse
                       measured == [s EXCEPT !.mse = mse,
                                             !.mseHistory = Append(@, mse)]
                   IN  [thrown |-> FALSE,
                        nextState |->
                           IF Improves(mse, s)
                           THEN [measured EXCEPT !.bestMSE = mse,
                                                 !.bestCode = newCode]
                           ELSE measured,
                        stored |-> Improves(mse, s),
                        ran |-> TRUE, code |-> newCode, mse |-> mse,
                        calls |-> both, prompt |-> prompt]
              ELSE [none EXCEPT !.nextState = UntestedState(s, newCode),
                                !.ran = (dataFile # NoCode),
                                !.code = newCode,
                                !.calls = IF dataFile # NoCode THEN both
                                          ELSE <<"generateMLPipeline">>]

\* _executeFeatureEngineering
ExecuteFeatureEngineering(registry, s, dataFile) ==
    [thrown |-> dataFile # NoCode /\ "calculateCryptoIndicators" \notin registry,
     nextState |-> s, stored |-> FALSE, ran |-> FALSE, code |-> NoCode,
     mse |-> null,
     calls |-> IF dataFile # NoCode /\ "calculateCryptoIndicators" \in registry
               THEN <<"calculateCryptoIndicators">> ELSE <<>>,
     prompt |-> NoPrompt]

\* _executeDataPreparation
ExecuteDataPreparation(registry, s, dataFile) ==
    [thrown |-> dataFile # NoCode /\ "analyzeBinanceData" \notin registry,
     nextState |-> [s EXCEPT !.phase = "optimization"], stored |-> FALSE,
     ran |-> FALSE, code |-> NoCode, mse |-> null,
     calls |-> IF dataFile # NoCode /\ "analyzeBinanceData" \in registry
               THEN <<"analyzeBinanceData">> ELSE <<>>,
     prompt |-> NoPrompt]

\* the recommender is asked whenever a metric has been taken
InvokesRecommender_AnyPhase(s) ==
    Len(s.mseHistory) > 0

\* `currentState.phase === 'optimization' && currentState.mseHistory.length > 0`
InvokesRecommender(s) ==
    s.phase = "optimization" /\ Len(s.mseHistory) > 0

\* how the recommender ends inside a decision.  Without a client it returns
\* the bare rule-based strategy, which has no `recommendation` property;
\* with a client it returns {recommendation, trends, ...}, where the service
\* may have answered with the JSON value null, or it throws.
RecommendationOutcomes(client, s) ==
    IF InvokesRecommender(s) /\ client
    THEN {Threw,
          Returned([recommendation |-> NullRecommendation]),
          Returned([recommendation |->
              Recommendation("Hyperparameter tuning",
                  "Apply GridSearchCV with 5-fold cross-validation", FALSE)])}
    ELSE {Returned([recommendation |-> NullRecommendation])}

\* the tools of a decision that send a request to the advisory service when
\* a client is configured
AdvisedTools ==
    {"analyzeContext", "getExecutionOptions", "recommendOptimizationStrategy",
     "generateMLPipeline"}

\* the number of requests the calls of one decision sent
RequestsOf(client, calls) ==
    IF client
    THEN Cardinality({i \in 1..Len(calls) : calls[i] \in AdvisedTools})
    ELSE 0

\* _makeAutonomousDecision.  `state` is the currentState object as the call
\* leaves it (the phase is written in place), `nextState` what it returns,
\* `executed` whether _executeDecision was entered, `calls` the tools that
\* executeTool ran, in order, `obtained` whether the recommender handed back
\* a recommendation, `prompt` what _executeOptimization built.
MakeAutonomousDecision(registry, client, s, dataFile, reply, rec, gen, test) ==
    LET contextAnalysis ==
            ExecuteTool(registry, "analyzeContext", AnalyzeContext(client, reply))
        failed(st, msg, calls) ==
            [thrown |-> TRUE, error |-> msg, state |-> st, nextState |-> st,
             stored |-> FALSE, ran |-> FALSE, code |-> NoCode, mse |-> null,
             executed |-> FALSE, calls |-> calls, obtained |-> FALSE,
             prompt |-> NoPrompt]
        first == <<"analyzeContext">>
        second == <<"analyzeContext", "getExecutionOptions">>
    IN  IF contextAnalysis.thrown THEN failed(s, "Tool not found", <<>>)
        ELSE IF ~contextAnalysis.success
        THEN failed(s, "Context analysis failed", first)
        ELSE
          LET decision == contextAnalysis.result.decision
          IN  IF decision.isNull THEN failed(s, "TypeError", first)
              ELSE IF "getExecutionOptions" \notin registry
                   THEN failed(s, "Tool not found", first)
              ELSE IF InvokesRecommender(s)
                      /\ "recommendOptimizationStrategy" \notin registry
                   THEN failed(s, "Tool not found", second)
              ELSE
                LET asked == InvokesRecommender(s)
                    wrapper ==
                        ExecuteTool(registry, "recommendOptimizationStrategy", rec)
                    strategyRec == IF asked THEN StrategyRec(wrapper)
                                   ELSE NoStrategyRec
                    third == IF asked
                             THEN Append(second, "recommendOptimizationStrategy")
                             ELSE second
                    obtained == asked /\ wrapper.success
                                /\ ~wrapper.result.recommendation.isNull
                IN  IF asked /\ wrapper.success
                       /\ wrapper.result.recommendation.isNull
                    THEN failed(s, "TypeError", third)
                    ELSE IF decision.action = NoAction
                    THEN [failed(s, "TypeError", third)
                             EXCEPT !.obtained = obtained]
                    ELSE
                      LET action == ToLowerCase(decision.action)
                          p == [s EXCEPT !.phase = DerivePhase(action, s)]
                          kind == Dispatch(action)
                          e == CASE kind = "feature" ->
                                     ExecuteFeatureEngineering(registry, p, dataFile)
                                 [] kind = "data" ->
                                     ExecuteDataPreparation(registry, p, dataFile)
                                 [] OTHER ->
                                     ExecuteOptimization(registry, strategyRec, p,
                                                         dataFile, gen, test)
                      IN  IF e.thrown
                          THEN [failed(p, "Tool not found", third \o e.calls)
                                   EXCEPT !.executed = TRUE,
                                          !.obtained = obtained,
                                          !.prompt = e.prompt]
                          ELSE [thrown |-> FALSE, error |-> "", state |-> p,
                                nextState |-> e.nextState, stored |-> e.stored,
                                ran |-> e.ran, code |-> e.code, mse |-> e.mse,
                                executed |-> TRUE, calls |-> third \o e.calls,
                                obtained |-> obtained, prompt |-> e.prompt]

\* _logProgress: m.toFixed(4) over the last three entries of mseHistory
\* raises a TypeError on an entry that is undefined
LogProgressThrows(s, verbose) ==
    /\ verbose
    /\ \E i \in 1..Len(s.mseHistory) :
          i > Len(s.mseHistory) - 3 /\ s.mseHistory[i] = undefined

\* the test `currentState.mse && currentState.mse <= mseThreshold`
ObjectiveMet(s, mseThreshold) ==
    Truthy(s.mse) /\ JsLe(s.mse, Num(mseThreshold))

\* the loop body without its try/catch: an exception leaves runAutonomous
AfterIteration_NoCatch(threw, met) ==
    IF threw THEN "threw" ELSE IF met THEN "done" ELSE "loop"

\* where the loop goes after the body of an iteration: the try/catch swallows
\* an exception, a met objective returns
AfterIteration(threw, met) ==
    IF ~threw /\ met THEN "done" ELSE "loop"

FinalValue(s, mseThreshold) ==
    [finalMSE |-> s.mse, bestMSE |-> s.bestMSE, iterations |-> s.iteration,
     achieved |-> JsLe(s.bestMSE, Num(mseThreshold))]

\* the summary with the success flag taken from the in-loop objective test
Summary_SuccessOnlyInLoop(success, iterations, s, achieved) ==
    [returned |-> TRUE, success |-> achieved, iterations |-> iterations,
     finalMSE |-> s.mse, bestMSE |-> s.bestMSE,
     objectiveAchieved |-> achieved]

\* the object runAutonomous returns
Summary(success, iterations, s, achieved) ==
    [returned |-> TRUE, success |-> success, iterations |-> iterations,
     finalMSE |-> s.mse, bestMSE |-> s.bestMSE,
     objectiveAchieved |-> achieved]

----------------------------------------------------------------------------
(* runAutonomous *)

BestKey == "best_pipeline_autonomous"
FinalKey == "autonomous_final_result"

\* the record of a returned long-term write, appended to ltmWrites
Written(w, key, value, type, sid, ts) ==
    [w EXCEPT ![key] =
        Append(@, [value |-> value,
                   metadata |-> LongTermEntry(key, value, type, sid, ts).metadata])]

\* the long-term memory an earlier run leaves behind
LeftBehind(p) ==
    <<LongTermEntry(BestKey, BestValue(Num(p), PrevCode, 1), "best_result", 1, 1),
      LongTermEntry(FinalKey,
                    [finalMSE |-> Num(p), bestMSE |-> Num(p), iterations |-> 1,
                     achieved |-> FALSE],
                    "final_result", 1, 2)>>

InitRun ==
    /\ alive = TRUE
    /\ memory = <<>>
    /\ memoryFile = NoFile
    /\ lastWrite = NoWrite
    /\ lastRead = NoRead
    /\ ltmWrites = [k \in AllKeys |-> <<>>]
    /\ \/ /\ sessionId = 1
          /\ clock = 0
          /\ longTermMemory = <<>>
          /\ longTermFile = NoFile
       \/ \E p \in PrevBests :
          /\ sessionId = 2
          /\ clock = 2
          /\ longTermMemory = LeftBehind(p)
          /\ longTermFile = [status |-> "ok", entries |-> LeftBehind(p)]
    /\ anthropic \in BOOLEAN
    /\ tools \in {BuiltinTools, BuiltinTools \cup LoaderTools}
    /\ pc = "idle"
    /\ config = NoConfig
    /\ currentState = InitialState
    /\ result = NoResult
    /\ tested = {}
    /\ startBest = [mse |-> Infinity, code |-> NoCode]
    /\ analyzed = NotAnalyzed
    /\ recommended = NotRecommended
    /\ IdleTools

\* runAutonomous up to the loop: the initial state, the stored
\* configuration, and the recovery of the previous best
RunAutonomous(cfg) ==
    /\ pc = "idle"
    /\ alive
    /\ config' = cfg
    /\ clock' = clock + 1
    /\ LET stored == ExecuteTool(tools, "storeMemory", Returned(TRUE))
           previousBest ==
               ExecuteTool(tools, "retrieveLongTermMemory",
                           Returned(RetrieveLongTermMemory(longTermMemory, BestKey)))
           found == previousBest.success /\ previousBest.result.success
       IN  /\ memory' = StoreMemoryEntries(memory, "autonomous_config", cfg,
                                           "config", sessionId, clock')
           /\ memoryFile' = SaveMemory(memoryFile, memory', "ok")
           /\ lastWrite' = StoreReturn("session", "autonomous_config", cfg, "ok")
           /\ lastRead' = NoRead
           /\ currentState' =
                 IF found
                 THEN [InitialState EXCEPT
                          !.bestMSE = previousBest.result.value.mse,
                          !.bestCode = previousBest.result.value.code]
                 ELSE InitialState
           /\ startBest' = [mse |-> currentState'.bestMSE,
                            code |-> currentState'.bestCode]
           /\ pc' = IF stored.thrown \/ previousBest.thrown THEN "threw" ELSE "loop"
    /\ UNCHANGED <<alive, sessionId, longTermMemory, longTermFile, ltmWrites,
                   anthropic, tools, result, tested, analyzed, recommended, toolVars>>

\* the memory writes of one pass: the best result (inside the decision),
\* the final result (objective met), the error record (catch block)
IterationWrites(d, s1, logThrows, threw, met) ==
    LET c1 == IF d.stored THEN clock + 1 ELSE clock
        best == BestValue(d.mse, d.code, s1.iteration)
        ltm1 == IF d.stored
                THEN StoreLongTermEntries(longTermMemory, BestKey, best,
                                          "best_result", sessionId, c1)
                ELSE longTermMemory
        w1 == IF d.stored
              THEN Written(ltmWrites, BestKey, best, "best_result", sessionId, c1)
              ELSE ltmWrites
        c2 == IF met THEN c1 + 1 ELSE c1
        final == FinalValue(s1, config.mseThreshold)
        c3 == IF threw THEN c2 + 1 ELSE c2
        errorValue == [iteration |-> s1.iteration,
                       error |-> IF logThrows THEN "TypeError" ELSE d.error,
                       state |-> s1]
    IN  [clock |-> c3,
         longTermMemory |->
            IF met
            THEN StoreLongTermEntries(ltm1, FinalKey, final, "final_result",
                                      sessionId, c2)
            ELSE ltm1,
         ltmWrites |->
            IF met
            THEN Written(w1, FinalKey, final, "final_result", sessionId, c2)
            ELSE w1,
         memory |->
            IF threw
            THEN StoreMemoryEntries(memory, ErrorKey(s1.iteration), errorValue,
                                    "error", sessionId, c3)
            ELSE memory,
         lastWrite |->
            IF threw
            THEN StoreReturn("session", ErrorKey(s1.iteration), errorValue, "ok")
            ELSE IF met THEN StoreReturn("persistent", FinalKey, final, "ok")
            ELSE IF d.stored THEN StoreReturn("persistent", BestKey, best, "ok")
            ELSE lastWrite]

\* one pass through the body of the while loop
Iteration(reply, recommendation, gen, test) ==
    /\ pc = "loop"
    /\ currentState.iteration < config.maxIterations
    /\ \E d \in {MakeAutonomousDecision(tools, anthropic,
                    [currentState EXCEPT !.iteration = @ + 1],
                    config.dataFile, reply, recommendation, gen, test)} :
       \E s1 \in {IF d.thrown THEN d.state ELSE d.nextState} :
       \E logThrows \in {~d.thrown /\ LogProgressThrows(s1, config.verbose)} :
       \E threw \in {d.thrown \/ logThrows} :
       \E met \in {~threw /\ ObjectiveMet(s1, config.mseThreshold)} :
       \E w \in {IterationWrites(d, s1, logThrows, threw, met)} :
           /\ currentState' = s1
           /\ clock' = w.clock
           /\ longTermMemory' = w.longTermMemory
           /\ longTermFile' = IF d.stored \/ met
                              THEN SaveMemory(longTermFile, longTermMemory', "ok")
                              ELSE longTermFile
           /\ ltmWrites' = w.ltmWrites
           /\ memory' = w.memory
           /\ memoryFile' = IF threw
                            THEN SaveMemory(memoryFile, memory', "ok")
                            ELSE memoryFile
           /\ lastWrite' = w.lastWrite
           /\ lastRead' = NoRead
           /\ tested' = IF d.ran
                        THEN tested \cup {<<d.code, d.mse>>}
                        ELSE tested
           /\ pc' = AfterIteration(threw, met)
           /\ result' = IF pc' = "done"
                        THEN Summary(TRUE, s1.iteration, s1, TRUE)
                        ELSE result
    /\ UNCHANGED <<alive, sessionId, anthropic, tools, config, startBest,
                   analyzed, recommended, toolVars>>

\* the loop condition fails: final result stored, summary returned
MaxIterationsReached ==
    /\ pc = "loop"
    /\ ~(currentState.iteration < config.maxIterations)
    /\ clock' = clock + 1
    /\ LET final == FinalValue(currentState, config.mseThreshold)
       IN  /\ longTermMemory' =
                 StoreLongTermEntries(longTermMemory, FinalKey, final,
                                      "final_result", sessionId, clock')
           /\ longTermFile' = SaveMemory(longTermFile, longTermMemory', "ok")
           /\ ltmWrites' = Written(ltmWrites, FinalKey, final, "final_result",
                                   sessionId, clock')
           /\ lastWrite' = StoreReturn("persistent", FinalKey, final, "ok")
           /\ lastRead' = NoRead
    /\ result' = Summary(JsLe(currentState.bestMSE, Num(config.mseThreshold)),
                         config.maxIterations, currentState, FALSE)
    /\ pc' = "done"
    /\ UNCHANGED <<alive, sessionId, memory, memoryFile, anthropic, tools,
                   config, currentState, tested, startBest, analyzed, recommended, toolVars>>

Configs ==
    [dataFile : DataFiles, mseThreshold : MseThresholds,
     maxIterations : 0..MaxIterationsBound, verbose : BOOLEAN]

NextRun ==
    \/ \E cfg \in Configs : RunAutonomous(cfg)
    \/ \E reply \in Replies, test \in TestOutcomes :
          \E gen \in GenerateOutcomes(currentState.iteration + 1),
             recommendation \in RecommendationOutcomes(anthropic, currentState) :
             Iteration(reply, recommendation, gen, test)
    \/ MaxIterationsReached

SpecRun == InitRun /\ [][NextRun]_vars

\* every await of the loop returns, so the loop keeps making steps
SpecRunFair == SpecRun /\ WF_vars(NextRun)

----------------------------------------------------------------------------
(* Memory store on its own *)

IdleRun ==
    /\ pc = "idle"
    /\ config = NoConfig
    /\ currentState = InitialState
    /\ result = NoResult
    /\ tested = {}
    /\ startBest = [mse |-> Infinity, code |-> NoCode]

Init ==
    /\ InitMem
    /\ anthropic = FALSE
    /\ tools = BuiltinTools
    /\ IdleRun
    /\ analyzed = NotAnalyzed
    /\ recommended = NotRecommended
    /\ IdleTools

Next ==
    \/ \E k \in Keys, v \in Values : StoreMemory(k, v, "ok")
    \/ \E k \in Keys, v \in Values : StoreLongTermMemory(k, v, "ok")
    \/ NewAgent

Spec == Init /\ [][Next]_vars

\* the store of one agent with its reads
NextReads ==
    \/ \E k \in Keys, v \in Values : StoreMemory(k, v, "ok")
    \/ \E k \in Keys, v \in Values : StoreLongTermMemory(k, v, "ok")
    \/ \E layer \in {"session", "persistent"}, k \in Keys : Retrieve(layer, k)
    \/ \E layer \in {"session", "persistent"}, q \in Queries : Search(layer, q)

SpecReads == Init /\ [][NextReads]_vars

\* the same store with flushes that may fail
NextFaults ==
    \/ \E k \in Keys, v \in Values, io \in FlushOutcomes : StoreMemory(k, v, io)
    \/ \E k \in Keys, v \in Values, io \in FlushOutcomes :
          StoreLongTermMemory(k, v, io)
    \/ NewAgent

SpecFaults == Init /\ [][NextFaults]_vars

\* the same store with a process that may die, flushes succeeding otherwise
NextCrash ==
    \/ \E k \in Keys, v \in Values : StoreMemory(k, v, "ok")
    \/ \E k \in Keys, v \in Values : StoreLongTermMemory(k, v, "ok")
    \/ \E k \in Keys, v \in Values : CrashInStoreMemory(k, v)
    \/ \E k \in Keys, v \in Values : CrashInStoreLongTermMemory(k, v)
    \/ Crash
    \/ NewAgent

SpecCrash == Init /\ [][NextCrash]_vars

----------------------------------------------------------------------------
(* One decision cycle as a tool: tools/autonomy/executeAutonomousDecision.js *)

MaxCycleIteration == 1

\* `autonomous_decision_${currentState.iteration || 0}`
DecisionKey(n) ==
    <<"autonomous_decision_0", "autonomous_decision_1", "autonomous_decision_2",
      "autonomous_decision_3">>[n + 1]

\* the currentState objects a caller hands to the tool
CycleStates ==
    {[InitialState EXCEPT !.phase = p, !.iteration = i] :
        p \in {"optimization"}, i \in 0..MaxCycleIteration}

\* what aiService.analyzeAndDecide yields for the decision: an error, the
\* {response, parsed: false} object for text that is not JSON, or parsed JSON
CycleReplies ==
    {[kind |-> "error", value |-> NullDecision],
     [kind |-> "text", value |-> NullDecision],
     [kind |-> "json", value |-> NullDecision]}
    \cup {[kind |-> "json", value |-> Decision(a, "High")] :
             a \in {"optimize_pipeline", "add_features"}}

\* executeAutonomousDecision._analyzeContext: a failed call is replaced by
\* the default decision; unparsable text comes back without an action
CycleDecision(reply) ==
    CASE reply.kind = "error" -> Decision("continue_optimization", "Medium")
      [] reply.kind = "text" -> Decision(NoAction, "none")
      [] OTHER -> reply.value

\* executeAutonomousDecision._executeDecision and the executors it calls
CycleExecution(decision, s) ==
    LET action == decision.action
        stepped == [s EXCEPT !.iteration = @ + 1]
    IN  IF Includes(action, "optimize") \/ Includes(action, "pipeline")
           \/ Includes(action, "model")
        THEN [success |-> TRUE, action |-> "optimize_pipeline",
              nextState |-> [stepped EXCEPT !.phase = "optimization"]]
        ELSE IF Includes(action, "feature") \/ Includes(action, "indicator")
        THEN [success |-> TRUE, action |-> "add_features", nextState |-> stepped]
        ELSE [success |-> TRUE, action |-> action, nextState |-> stepped]

\* the cycle reaches _storeDecisionResult: the service is available, the
\* decision is an object with an action text, and the strategy reply (asked
\* for in the optimization phase) is not the JSON value null
CycleStores(client, s, reply, strategyIsNull) ==
    /\ client
    /\ ~CycleDecision(reply).isNull
    /\ CycleDecision(reply).action # NoAction
    /\ ~(s.phase = "optimization" /\ strategyIsNull)

\* _storeDecisionResult: the entry is pushed, whatever the layer holds
StoreDecisionResult(entries, s, decision, executionResult, ts) ==
    Append(entries,
           [key |-> DecisionKey(s.iteration),
            value |-> [iteration |-> s.iteration, phase |-> s.phase,
                       decision |-> decision,
                       executionResult |-> executionResult,
                       timestamp |-> ts],
            metadata |-> [type |-> "autonomous_decision"]])

\* executeTool('executeAutonomousDecision', {currentState: s, ...}).  When
\* the cycle ends before _storeDecisionResult the tool throws (no service) or
\* returns {success: false}, and nothing is written.
ExecuteAutonomousDecision(s, reply, strategyIsNull) ==
    /\ alive
    /\ "executeAutonomousDecision" \in tools
    /\ clock < MaxWrites
    /\ IF CycleStores(anthropic, s, reply, strategyIsNull)
       THEN /\ clock' = clock + 1
            /\ memory' = StoreDecisionResult(memory, s, CycleDecision(reply),
                              CycleExecution(CycleDecision(reply), s), clock')
            /\ memoryFile' = SaveMemory(memoryFile, memory', "ok")
       ELSE UNCHANGED <<clock, memory, memoryFile>>
    /\ UNCHANGED <<alive, sessionId, longTermMemory, longTermFile, lastWrite,
                   lastRead, ltmWrites>>
    /\ UNCHANGED <<agentVars, runVars, ctxVars, toolVars>>

InitCycles ==
    /\ InitMem
    /\ anthropic \in BOOLEAN
    /\ tools = BuiltinTools \cup LoaderTools
    /\ IdleRun
    /\ analyzed = NotAnalyzed
    /\ recommended = NotRecommended
    /\ IdleTools

NextCycles ==
    \/ \E k \in Keys, v \in Values : StoreMemory(k, v, "ok")
    \/ \E k \in Keys, v \in Values : StoreLongTermMemory(k, v, "ok")
    \/ \E s \in CycleStates, reply \in CycleReplies, n \in BOOLEAN :
          ExecuteAutonomousDecision(s, reply, n)
    \/ NewAgent

SpecCycles == InitCycles /\ [][NextCycles]_vars

----------------------------------------------------------------------------
(* Context Analyzer on its own *)

Confidences == {"High", "Medium", "Low"}

ContextReplies ==
    {[kind |-> "error", value |-> NullDecision],
     [kind |-> "text", value |-> NullDecision],
     [kind |-> "json", value |-> NullDecision]}
    \cup {[kind |-> "json", value |-> Decision(a, c)] :
             a \in ActionTexts \cup {NoAction}, c \in Confidences}

InitContext ==
    /\ InitMem
    /\ anthropic \in BOOLEAN
    /\ tools \in {BuiltinTools, BuiltinTools \cup LoaderTools}
    /\ IdleRun
    /\ \E reply \in ContextReplies :
          analyzed = [done |-> FALSE, reply |-> reply,
                      contextAnalysis |-> ExecuteTool({}, "analyzeContext", Threw)]
    /\ recommended = NotRecommended
    /\ IdleTools

\* agent.executeTool('analyzeContext', {..., anthropic: agent.anthropic})
CallAnalyzeContext ==
    /\ ~analyzed.done
    /\ analyzed' =
          [analyzed EXCEPT
              !.done = TRUE,
              !.contextAnalysis =
                  ExecuteTool(tools, "analyzeContext",
                              AnalyzeContext(anthropic, analyzed.reply))]
    /\ UNCHANGED <<memVars, agentVars, runVars, recommended, toolVars>>

NextContext == CallAnalyzeContext

SpecContext == InitContext /\ [][NextContext]_vars

----------------------------------------------------------------------------
(* Strategy Recommender on its own *)

InitStrategy ==
    /\ InitMem
    /\ anthropic \in BOOLEAN
    /\ tools = BuiltinTools \cup LoaderTools
    /\ IdleRun
    /\ IdleTools
    /\ analyzed = NotAnalyzed
    /\ \E h \in Histories, n \in IterationNumbers, reply \in StrategyReplies :
          recommended = [done |-> FALSE, mseHistory |-> h, iterationNumber |-> n,
                         reply |-> reply,
                         strategyRecommendation |->
                             ExecuteTool({}, "recommendOptimizationStrategy", Threw)]

\* agent.executeTool('recommendOptimizationStrategy',
\*                   {mseHistory, iterationNumber, anthropic: agent.anthropic})
CallRecommendOptimizationStrategy ==
    /\ ~recommended.done
    /\ recommended' =
          [recommended EXCEPT
              !.done = TRUE,
              !.strategyRecommendation =
                  ExecuteTool(tools, "recommendOptimizationStrategy",
                      Returned(RecommendOptimizationStrategy(
                                   anthropic, recommended.reply,
                                   recommended.mseHistory,
                                   recommended.iterationNumber)))]
    /\ UNCHANGED <<memVars, agentVars, runVars, analyzed, toolVars>>

NextStrategy == CallRecommendOptimizationStrategy

SpecStrategy == InitStrategy /\ [][NextStrategy]_vars

----------------------------------------------------------------------------
(* One decision of the loop on its own *)

MaxPhaseIteration == 3

Phases == {"initialization", "optimization", "evaluation"}

\* the state an earlier iteration leaves behind when it measured 0.20
MeasuredState == [InitialState EXCEPT !.mse = Num(20),
                                      !.mseHistory = <<Num(20)>>,
                                      !.bestMSE = Num(20),
                                      !.bestCode = CodeOf(1)]

\* currentState after `currentState.iteration++`.  Iteration 1 starts in
\* the initial state; iteration 2 starts in the optimization phase only
\* after a data preparation, which measures nothing; the evaluation phase
\* is reached from iteration 2 on.
LoopStates ==
    {[InitialState EXCEPT !.iteration = 1]}
    \cup {[s EXCEPT !.iteration = 2] : s \in {InitialState, MeasuredState}}
    \cup {[InitialState EXCEPT !.iteration = 2, !.phase = "optimization"]}
    \cup {[s EXCEPT !.iteration = i, !.phase = p] :
             s \in {InitialState, MeasuredState},
             i \in 3..MaxPhaseIteration, p \in Phases}

LoopConfigs ==
    [dataFile : DataFiles, mseThreshold : MseThresholds,
     maxIterations : {MaxPhaseIteration}, verbose : {FALSE}]

\* the long-term memory of a run whose currentState is s
BestStored(s) ==
    IF s.mseHistory = <<>> THEN <<>>
    ELSE <<LongTermEntry(BestKey, BestValue(s.bestMSE, s.bestCode, 1),
                         "best_result", 1, 2)>>

InitDecision ==
    /\ alive = TRUE
    /\ sessionId = 1
    /\ anthropic \in BOOLEAN
    /\ tools \in {BuiltinTools, BuiltinTools \cup LoaderTools}
    /\ pc = "iteration"
    /\ config \in LoopConfigs
    /\ currentState \in LoopStates
    /\ clock = IF currentState.mseHistory = <<>> THEN 1 ELSE 2
    /\ memory = <<SessionEntry("autonomous_config", config, "config", 1, 1)>>
    /\ memoryFile = [status |-> "ok", entries |-> memory]
    /\ longTermMemory = BestStored(currentState)
    /\ longTermFile = IF longTermMemory = <<>> THEN NoFile
                      ELSE [status |-> "ok", entries |-> longTermMemory]
    /\ lastWrite = NoWrite
    /\ lastRead = NoRead
    /\ ltmWrites =
          IF currentState.mseHistory = <<>> THEN [k \in AllKeys |-> <<>>]
          ELSE Written([k \in AllKeys |-> <<>>], BestKey,
                       BestValue(currentState.bestMSE, currentState.bestCode, 1),
                       "best_result", 1, 2)
    /\ result = NoResult
    /\ tested = IF currentState.mseHistory = <<>> THEN {}
                ELSE {<<currentState.bestCode, currentState.bestMSE>>}
    /\ startBest = [mse |-> Infinity, code |-> NoCode]
    /\ \E reply \in Replies :
          analyzed = [done |-> FALSE, reply |-> reply,
                      currentState |-> currentState, executed |-> FALSE,
                      calls |-> <<>>, requests |-> 0, obtained |-> FALSE,
                      prompt |-> NoPrompt,
                      contextAnalysis |-> ExecuteTool({}, "analyzeContext", Threw)]
    /\ recommended = NotRecommended
    /\ IdleTools

\* _makeAutonomousDecision(currentState, objective) followed by _updateState
\* (or by the catch block's view of currentState when the decision threw)
Decide(recommendation, gen, test) ==
    /\ pc = "iteration"
    /\ \E d \in {MakeAutonomousDecision(tools, anthropic, currentState,
                    config.dataFile, analyzed.reply, recommendation, gen, test)} :
       \E s1 \in {IF d.thrown THEN d.state ELSE d.nextState} :
       \E w \in {IterationWrites(d, s1, FALSE, FALSE, FALSE)} :
           /\ currentState' = s1
           /\ clock' = w.clock
           /\ longTermMemory' = w.longTermMemory
           /\ longTermFile' = IF d.stored
                              THEN SaveMemory(longTermFile, longTermMemory', "ok")
                              ELSE longTermFile
           /\ ltmWrites' = w.ltmWrites
           /\ lastWrite' = w.lastWrite
           /\ lastRead' = NoRead
           /\ tested' = IF d.ran THEN tested \cup {<<d.code, d.mse>>} ELSE tested
           /\ analyzed' =
                 [analyzed EXCEPT
                     !.done = TRUE,
                     !.executed = d.executed,
                     !.calls = d.calls,
                     !.requests = RequestsOf(anthropic, d.calls),
                     !.obtained = d.obtained,
                     !.prompt = d.prompt,
                     !.contextAnalysis =
                         ExecuteTool(tools, "analyzeContext",
                                     AnalyzeContext(anthropic, analyzed.reply))]
    /\ pc' = "decided"
    /\ UNCHANGED <<alive, sessionId, memory, memoryFile, anthropic, tools,
                   config, result, startBest, recommended, toolVars>>

NextDecision ==
    \E test \in TestOutcomes, gen \in GenerateOutcomes(currentState.iteration),
       recommendation \in RecommendationOutcomes(anthropic, currentState) :
       Decide(recommendation, gen, test)

SpecDecision == InitDecision /\ [][NextDecision]_vars

----------------------------------------------------------------------------
(* The traditional orchestrator: ObscureXAgent.runOptimizationLoop *)

MaxLoopIterations == 2
MaxRuns == 2

LoopBestKey == "best_pipeline"

\* `iteration_${iteration}`
IterationKey(n) ==
    <<"iteration_1", "iteration_2", "iteration_3", "iteration_4">>[n]

LoopThresholds == {5, 20}

OrchestratorConfigs ==
    [mseThreshold : {Num(t) : t \in LoopThresholds},
     maxIterations : 1..MaxLoopIterations]

\* what testMLPipeline hands back inside the loop
LoopTestOutcomes ==
    {Returned([success |-> FALSE, mse |-> null])}
    \cup {Returned([success |-> TRUE, mse |-> m]) :
             m \in {Num(4), Num(5), Num(20), undefined}}

\* the locals of runOptimizationLoop; `measured` tells whether the pass just
\* made took a metric
LoopLocals(run, bestMSE, bestCode) ==
    [NoLoop EXCEPT !.run = run, !.bestMSE = bestMSE, !.bestCode = bestCode]

\* the value runOptimizationLoop returns
LoopResult(success, iterations, bestMSE, bestCode) ==
    [returned |-> TRUE, success |-> success, iterations |-> iterations,
     bestMSE |-> bestMSE, bestCode |-> bestCode]

\* `previousBest.success` and `previousBest.value.mse < mseThreshold`
Recovers(previousBest, mseThreshold) ==
    previousBest.success /\ JsLt(previousBest.value.mse, mseThreshold)

InitLoop ==
    /\ InitMem
    /\ anthropic \in BOOLEAN
    /\ tools = BuiltinTools
    /\ IdleRun
    /\ analyzed = NotAnalyzed
    /\ recommended = NotRecommended
    /\ IdleTools

\* runOptimizationLoop(config) up to the while loop: the stored
\* configuration and the recovery of the previous best
RunOptimizationLoop(cfg) ==
    /\ pc \in {"idle", "done"}
    /\ alive
    /\ loop.run < MaxRuns
    /\ config' = cfg
    /\ clock' = clock + 1
    /\ memory' = StoreMemoryEntries(memory, "orchestrator_config", cfg, "config",
                                    sessionId, clock')
    /\ memoryFile' = SaveMemory(memoryFile, memory', "ok")
    /\ lastWrite' = StoreReturn("session", "orchestrator_config", cfg, "ok")
    /\ lastRead' = NoRead
    /\ LET previousBest == RetrieveLongTermMemory(longTermMemory, LoopBestKey)
       IN  loop' = IF Recovers(previousBest, cfg.mseThreshold)
                   THEN LoopLocals(loop.run + 1, previousBest.value.mse,
                                   previousBest.value.code)
                   ELSE LoopLocals(loop.run + 1, Infinity, NoCode)
    /\ pc' = "loop"
    /\ result' = NoResult
    /\ UNCHANGED <<alive, sessionId, longTermMemory, longTermFile, ltmWrites,
                   agentVars, currentState, tested, startBest, ctxVars,
                   toolCall, peer>>

\* one pass through the body of the while loop.  Both tools are built in, so
\* executeTool does not throw and the catch block stays out of the picture.
LoopIteration(gen, test) ==
    /\ pc = "loop"
    /\ loop.iteration < config.maxIterations
    /\ LET iteration == loop.iteration + 1
           generateResult == ExecuteTool(tools, "generateMLPipeline", gen)
           currentCode == IF generateResult.success
                          THEN generateResult.result.code ELSE loop.currentCode
           testResult == ExecuteTool(tools, "testMLPipeline", test)
           failedTest == ~testResult.success \/ testResult.result.mse = null
           measured == generateResult.success /\ ~failedTest
           lastMSE == IF measured THEN testResult.result.mse ELSE loop.lastMSE
           improved == measured /\ JsLt(lastMSE, loop.bestMSE)
           bestMSE == IF improved THEN lastMSE ELSE loop.bestMSE
           bestCode == IF improved THEN currentCode ELSE loop.bestCode
           met == improved /\ JsLe(bestMSE, config.mseThreshold)
           c1 == IF generateResult.success THEN clock + 1 ELSE clock
           record == IF measured
                     THEN [iteration |-> iteration, mse |-> lastMSE,
                           code |-> currentCode]
                     ELSE [iteration |-> iteration, success |-> FALSE,
                           code |-> currentCode]
           m1 == IF generateResult.success
                 THEN StoreMemoryEntries(memory, IterationKey(iteration), record,
                                         "iteration_result", sessionId, c1)
                 ELSE memory
           c2 == IF improved THEN c1 + 1 ELSE c1
           best == BestValue(bestMSE, bestCode, iteration)
       IN  /\ loop' = [loop EXCEPT !.iteration = iteration,
                                   !.currentCode = currentCode,
                                   !.lastMSE = lastMSE,
                                   !.bestMSE = bestMSE,
                                   !.bestCode = bestCode,
                                   !.measured = measured]
           /\ clock' = c2
           /\ memory' = m1
           /\ memoryFile' = IF generateResult.success
                            THEN SaveMemory(memoryFile, memory', "ok")
                            ELSE memoryFile
           /\ longTermMemory' =
                 IF improved
                 THEN StoreLongTermEntries(longTermMemory, LoopBestKey, best,
                                           "best_result", sessionId, c2)
                 ELSE longTermMemory
           /\ longTermFile' = IF improved
                              THEN SaveMemory(longTermFile, longTermMemory', "ok")
                              ELSE longTermFile
           /\ ltmWrites' = IF improved
                           THEN Written(ltmWrites, LoopBestKey, best,
                                        "best_result", sessionId, c2)
                           ELSE ltmWrites
           /\ lastWrite' =
                 IF improved
                 THEN StoreReturn("persistent", LoopBestKey, best, "ok")
                 ELSE IF generateResult.success
                 THEN StoreReturn("session", IterationKey(iteration), record, "ok")
                 ELSE lastWrite
           /\ lastRead' = NoRead
           /\ pc' = IF met THEN "done" ELSE "loop"
           /\ result' = IF met
                        THEN LoopResult(TRUE, iteration, bestMSE, bestCode)
                        ELSE result
    /\ UNCHANGED <<alive, sessionId, agentVars, config, currentState, tested,
                   startBest, ctxVars, toolCall, peer>>

\* the while condition fails: the summary after maxIterations passes
LoopExhausted ==
    /\ pc = "loop"
    /\ loop.iteration >= config.maxIterations
    /\ pc' = "done"
    /\ result' = LoopResult(JsLe(loop.bestMSE, config.mseThreshold),
                            config.maxIterations, loop.bestMSE, loop.bestCode)
    /\ UNCHANGED <<memVars, agentVars, config, currentState, tested, startBest,
                   ctxVars, toolVars>>

NextLoop ==
    \/ \E cfg \in OrchestratorConfigs : RunOptimizationLoop(cfg)
    \/ \E test \in LoopTestOutcomes :
          \E gen \in GenerateOutcomes(loop.iteration + 1) :
             LoopIteration(gen, test)
    \/ LoopExhausted

SpecLoop == InitLoop /\ [][NextLoop]_vars

----------------------------------------------------------------------------
(* Execution options: getExecutionOptions *)

\* the own keys of the options object literal, in the order it is written
InitializationOptions ==
    <<"download_data", "analyze_existing_data", "add_indicators",
      "start_optimization">>
OptimizationOptions ==
    <<"continue_optimization", "add_features", "hyperparameter_tuning",
      "feature_engineering", "ensemble_methods", "cross_validation",
      "try_different_model", "analyze_results">>
EvaluationOptions ==
    <<"test_pipeline", "store_best_model", "restart_optimization", "finalize">>

\* property names every object literal inherits from Object.prototype
ObjectPrototypeKeys ==
    {"constructor", "toString", "valueOf", "hasOwnProperty", "__proto__"}

\* `condition: state.mse > state.threshold` of continue_optimization
OptionCondition(state) ==
    IF state.mse.t = "null" THEN JsLt(state.threshold, Num(0))
    ELSE JsLt(state.threshold, state.mse)

Option(action) == [action |-> action, condition |-> "none"]

\* the list stored under one own key of the options object
OptionTable(phase, state) ==
    CASE phase = "initialization" ->
            [i \in 1..Len(InitializationOptions) |-> Option(InitializationOptions[i])]
      [] phase = "evaluation" ->
            [i \in 1..Len(EvaluationOptions) |-> Option(EvaluationOptions[i])]
      [] OTHER ->
            [i \in 1..Len(OptimizationOptions) |->
                IF i = 1
                THEN [action |-> OptimizationOptions[1],
                      condition |-> IF OptionCondition(state) THEN "true"
                                    ELSE "false"]
                ELSE Option(OptimizationOptions[i])]

\* options[phase]: an own list, a member inherited from Object.prototype
\* (a function or an object, truthy), or undefined
OptionsProperty(phase, state) ==
    IF phase \in {"initialization", "optimization", "evaluation"}
    THEN [kind |-> "list", list |-> OptionTable(phase, state)]
    ELSE IF phase \in ObjectPrototypeKeys
         THEN [kind |-> "inherited", list |-> <<>>]
         ELSE [kind |-> "undefined", list |-> <<>>]

\* _getBaseOptions: `options[phase] || options.optimization`
GetBaseOptions(phase, state) ==
    LET own == OptionsProperty(phase, state)
    IN  IF own.kind # "undefined" THEN own
        ELSE [kind |-> "list", list |-> OptionTable("optimization", state)]

\* what anthropic.messages.create yields for the ranking prompt
RankingReplies == {"error", "text", "json"}

\* _getAIRecommendations: the parsed ranking, or the default recommendation
\* built from options[0]?.action when the request or the parse fails
GetAIRecommendations(options, reply) ==
    IF reply = "json" THEN "ranking"
    ELSE IF options.kind = "list" /\ Len(options.list) > 0
         THEN options.list[1].action
         ELSE "continue_optimization"

\* getExecutionOptions.execute
GetExecutionOptions(client, reply, phase, state) ==
    LET baseOptions == GetBaseOptions(phase, state)
    IN  [phase |-> phase, options |-> baseOptions,
         aiRecommendations |->
            IF client THEN GetAIRecommendations(baseOptions, reply)
            ELSE "absent"]

OptionPhases ==
    {"initialization", "optimization", "evaluation", "deployment",
     "constructor"}

\* the currentState handed to the tool: the metric absent, below or above
\* the threshold
OptionStates ==
    [mse : {null, undefined, Num(4), Num(20)}, threshold : {Num(5)}]

InitOptions ==
    /\ InitMem
    /\ anthropic \in BOOLEAN
    /\ tools = BuiltinTools \cup LoaderTools
    /\ IdleRun
    /\ analyzed = NotAnalyzed
    /\ recommended = NotRecommended
    /\ \E phase \in OptionPhases, state \in OptionStates, reply \in RankingReplies :
          toolCall = [done |-> FALSE, currentPhase |-> phase,
                         currentState |-> state, reply |-> reply,
                         result |-> ExecuteTool({}, "getExecutionOptions", Threw)]
    /\ loop = NoLoop
    /\ peer = NoPeer

\* agent.executeTool('getExecutionOptions',
\*                   {currentPhase, currentState, anthropic: agent.anthropic})
CallGetExecutionOptions ==
    /\ ~toolCall.done
    /\ toolCall' =
          [toolCall EXCEPT
              !.done = TRUE,
              !.result =
                  ExecuteTool(tools, "getExecutionOptions",
                      Returned(GetExecutionOptions(anthropic, toolCall.reply,
                                   toolCall.currentPhase,
                                   toolCall.currentState)))]
    /\ UNCHANGED <<memVars, agentVars, runVars, ctxVars, loop, peer>>

NextOptions == CallGetExecutionOptions

SpecOptions == InitOptions /\ [][NextOptions]_vars

----------------------------------------------------------------------------
(* executeTool on its own *)

ToolNames == BuiltinTools \cup LoaderTools \cup {"noSuchTool"}

\* how a tool's execute ends: it throws, or it returns a result that
\* reports its own failure or success
ToolOutcomes ==
    {Threw,
     Returned([success |-> FALSE, message |-> "failed"]),
     Returned([success |-> TRUE, message |-> "done"])}

InitTool ==
    /\ InitMem
    /\ anthropic = FALSE
    /\ tools \in {BuiltinTools, BuiltinTools \cup LoaderTools}
    /\ IdleRun
    /\ analyzed = NotAnalyzed
    /\ recommended = NotRecommended
    /\ \E name \in ToolNames, outcome \in ToolOutcomes :
          toolCall = [done |-> FALSE, toolName |-> name, outcome |-> outcome,
                      result |-> ExecuteTool({}, name, Threw)]
    /\ loop = NoLoop
    /\ peer = NoPeer

\* agent.executeTool(toolName, params)
CallExecuteTool ==
    /\ ~toolCall.done
    /\ toolCall' =
          [toolCall EXCEPT
              !.done = TRUE,
              !.result = ExecuteTool(tools, toolCall.toolName, toolCall.outcome)]
    /\ UNCHANGED <<memVars, agentVars, runVars, ctxVars, loop, peer>>

NextTool == CallExecuteTool

SpecTool == InitTool /\ [][NextTool]_vars

----------------------------------------------------------------------------
(* Two agents on one long-term memory file *)

\* the session id of the second agent
PeerSession == 2

\* new ObscureXAgent(apiKey, memoryPath2, longTermMemoryPath): the second
\* agent loads its own copy of the long-term file
NewPeer ==
    /\ ~peer.alive
    /\ peer' = [alive |-> TRUE, sessionId |-> PeerSession, born |-> clock,
                longTermMemory |-> LoadMemory(longTermFile)]
    /\ UNCHANGED <<memVars, agentVars, runVars, ctxVars, toolCall, loop>>

\* storeLongTermMemory(key, value) on the second agent: its own copy is
\* updated and written over the file
PeerStoreLongTermMemory(key, value) ==
    /\ peer.alive
    /\ clock < MaxWrites
    /\ clock' = clock + 1
    /\ peer' = [peer EXCEPT !.longTermMemory =
                   StoreLongTermEntries(@, key, value, "none", peer.sessionId,
                                        clock')]
    /\ longTermFile' = SaveMemory(longTermFile, peer'.longTermMemory, "ok")
    /\ lastWrite' = StoreReturn("persistent", key, value, "ok")
    /\ lastRead' = NoRead
    /\ ltmWrites' = Written(ltmWrites, key, value, "none", peer.sessionId, clock')
    /\ UNCHANGED <<alive, sessionId, memory, longTermMemory, memoryFile,
                   agentVars, runVars, ctxVars, toolCall, loop>>

NextPeers ==
    \/ \E k \in Keys, v \in Values : StoreLongTermMemory(k, v, "ok")
    \/ NewPeer
    \/ \E k \in Keys, v \in Values : PeerStoreLongTermMemory(k, v)

SpecPeers == Init /\ [][NextPeers]_vars

----------------------------------------------------------------------------
(* Properties *)

Last(q) == q[Len(q)]
Front(q) == SubSeq(q, 1, Len(q) - 1)

\* the numbers in a metric history
NumbersOf(h) == {h[i] : i \in {j \in 1..Len(h) : IsNumber(h[j])}}

\* the least of a non-empty set of numbers and Infinity
MinOf(S) == CHOOSE x \in S : \A y \in S : JsLe(x, y)

\* C1: after N >= 1 writes to a key of the persistent layer, retrieving the
\* key reports as history the N-1 superseded (value, metadata) pairs in write
\* order; since the written pairs only grow, no write shortens a history.
C1_HistoryAppendOnly ==
    \A k \in Keys :
        Len(ltmWrites[k]) >= 1 =>
            LET r == RetrieveLongTermMemory(longTermMemory, k)
            IN  r.success /\ r.history = Front(ltmWrites[k])

\* C2: whenever a best metric is known, bestCode is an artifact whose
\* execution measured that metric, or the artifact recovered with it from
\* long-term memory at startup.
C2_BestCodeProducedBest ==
    IsNumber(currentState.bestMSE) =>
        \/ <<currentState.bestCode, currentState.bestMSE>> \in tested
        \/ startBest = [mse |-> currentState.bestMSE,
                        code |-> currentState.bestCode]

\* C3 as claimed: bestMSE never increases from one step to the next, and
\* once a metric has been observed it equals the minimum of mseHistory.
C3_MonotonicBestOriginal ==
    /\ [][JsLe(currentState'.bestMSE, currentState.bestMSE)]_vars
    /\ [](NumbersOf(currentState.mseHistory) # {} =>
            currentState.bestMSE = MinOf(NumbersOf(currentState.mseHistory)))

\* C3 amended: bestMSE never increases, and it always equals the minimum of
\* the numbers in mseHistory and the metric recovered from long-term memory
\* at startup (Infinity when none was recovered).
C3_MonotonicBest ==
    /\ [][JsLe(currentState'.bestMSE, currentState.bestMSE)]_vars
    /\ [](currentState.bestMSE =
            MinOf(NumbersOf(currentState.mseHistory) \cup {startBest.mse}))

\* C3 witness: a best was recovered, and a later measurement improved on it
\* while another measurement did not.
C3_Witness ==
    /\ IsNumber(startBest.mse)
    /\ JsLt(currentState.bestMSE, startBest.mse)
    /\ \E i \in 1..Len(currentState.mseHistory) :
          JsLt(currentState.bestMSE, currentState.mseHistory[i])

\* the metric an iteration step has measured, if it measured one
Measured(h, hNext) ==
    /\ Len(hNext) = Len(h) + 1
    /\ IsNumber(Last(hNext))

\* C4: an iteration that measures a metric m <= mseThreshold (m >= 0, 0
\* included) ends the run at once with success = true.
C4_StopsAtThreshold ==
    [][(/\ pc = "loop"
        /\ currentState'.iteration = currentState.iteration + 1
        /\ Measured(currentState.mseHistory, currentState'.mseHistory)
        /\ Last(currentState'.mseHistory).v <= config.mseThreshold)
       => (/\ pc' = "done"
           /\ result'.success
           /\ result'.iterations = currentState'.iteration
           /\ result'.bestMSE = currentState'.bestMSE)]_vars

\* C5: runAutonomous always returns; it never leaves through an exception,
\* it runs at most maxIterations iterations, and what it returns is the
\* summary {success, iterations, bestMSE, finalMSE}.
C5_TerminatesWithSummary ==
    /\ <>(pc = "done")
    /\ [](pc # "threw")
    /\ [](currentState.iteration <= config.maxIterations)
    /\ [](pc = "done" =>
            /\ result.returned
            /\ result.success \in BOOLEAN
            /\ result.iterations = currentState.iteration
            /\ result.bestMSE = currentState.bestMSE
            /\ result.finalMSE = currentState.mse)

\* C5 witness: a run that returned at maxIterations after an iteration that
\* raised an exception and one that measured a metric.
C5_Witness ==
    /\ pc = "done"
    /\ config.maxIterations = currentState.iteration
    /\ currentState.iteration >= 2
    /\ \E n \in 1..currentState.iteration : HasKey(memory, ErrorKey(n))
    /\ NumbersOf(currentState.mseHistory) # {}

\* C6: an iteration that ends in the catch block (it writes the error record
\* of its iteration number) leaves bestMSE, bestCode and mseHistory as they
\* were and goes on to the next iteration.
C6_ExceptionLeavesStateAlone ==
    [][(/\ pc = "loop"
        /\ currentState'.iteration = currentState.iteration + 1
        /\ lastWrite'.layer = "session"
        /\ lastWrite'.key = ErrorKey(currentState'.iteration))
       => (/\ HasKey(memory', ErrorKey(currentState'.iteration))
           /\ currentState'.bestMSE = currentState.bestMSE
           /\ currentState'.bestCode = currentState.bestCode
           /\ currentState'.mseHistory = currentState.mseHistory
           /\ pc' = "loop")]_vars

SafeDefault == Decision("continue_optimization", "Medium")

LayerOf(w) == IF w.layer = "session" THEN memory ELSE longTermMemory
FileOf(w) == IF w.layer = "session" THEN memoryFile ELSE longTermFile

\* C8: when a write returns, the in-memory layer holds the entry; the layer
\* has been flushed to its file, or else the write did not report success.
C8_FlushFailureReported ==
    lastWrite.layer # "none" =>
        /\ RetrieveMemory(LayerOf(lastWrite), lastWrite.key).success
        /\ RetrieveMemory(LayerOf(lastWrite), lastWrite.key).value = lastWrite.value
        /\ lastWrite.flush = "ok" =>
              FileOf(lastWrite) = [status |-> "ok", entries |-> LayerOf(lastWrite)]
        /\ lastWrite.flush # "ok" => ~lastWrite.success

\* C9: whatever crashes happened, a running agent holds, for every key whose
\* persistent write has returned, the latest value written.
C9_CrashConsistency ==
    alive =>
        \A k \in Keys :
            Len(ltmWrites[k]) >= 1 =>
                LET r == RetrieveLongTermMemory(longTermMemory, k)
                IN  r.success /\ r.value = Last(ltmWrites[k]).value

\* C10: every entry of the session layer was written by the current run.
C10_SessionLayerFresh ==
    alive =>
        \A i \in 1..Len(memory) : memory[i].metadata.sessionId = sessionId

\* C11: no layer holds two entries with the same key.
C11_KeysUnique ==
    \A layer \in {memory, longTermMemory} :
        \A i, j \in 1..Len(layer) : layer[i].key = layer[j].key => i = j

\* the window the Trend Analyzer is said to look at: the last min(5, len)
\* samples
Window(h) ==
    LET n == IF Len(h) < 5 THEN Len(h) ELSE 5
    IN  [i \in 1..n |-> h[Len(h) - n + i]]

\* the differences previous - current over a window add up to first - last
Drop(h) == Window(h)[1] - Last(Window(h))

\* the mean of the differences is positive / below 0.001 in magnitude
MeanPositive(h) == Len(h) >= 2 /\ Drop(h) > 0
MeanTiny(h) ==
    /\ Len(h) >= 2
    /\ Drop(h) < 10 * (Len(Window(h)) - 1)
    /\ -Drop(h) < 10 * (Len(Window(h)) - 1)

\* the rule table as the claim words it
Rung(h, n) ==
    IF MeanTiny(h) THEN "Try different approach"
    ELSE IF ~MeanPositive(h) THEN "Simplify and regularize"
    ELSE IF n < 10 THEN "Hyperparameter tuning"
    ELSE IF n < 20 THEN "Feature engineering"
    ELSE "Ensemble methods"

\* the call took the rule-based path: no service, a failed call, or a reply
\* that does not parse
RuleBased ==
    /\ recommended.done
    /\ ~anthropic \/ recommended.reply.kind \in {"error", "text"}

\* C12: on the rule-based path the recommender returns the first matching
\* rung of the rule table, for every history and iteration number.
C12_FallbackLadder ==
    RuleBased =>
        /\ recommended.strategyRecommendation.success
        /\ ~recommended.strategyRecommendation.result.recommendation.isNull
        /\ recommended.strategyRecommendation.result.recommendation.strategy
              = Rung(recommended.mseHistory, recommended.iterationNumber)

\* C12 witness: the improving history of the README at iteration 5, no
\* service: hyperparameter tuning.
C12_Witness ==
    /\ RuleBased
    /\ ~anthropic
    /\ recommended.mseHistory = <<2500, 2200, 2000, 1800, 1500>>
    /\ recommended.iterationNumber = 5
    /\ recommended.strategyRecommendation.result.recommendation.strategy
          = "Hyperparameter tuning"

\* C13 as claimed: for a stagnant history the recommender returns "try a
\* different approach" with tryDifferentApproach = true, with or without the
\* service and whatever the service replies.
C13_StagnantOriginal ==
    (recommended.done /\ MeanTiny(recommended.mseHistory)) =>
        /\ ~recommended.strategyRecommendation.result.recommendation.isNull
        /\ recommended.strategyRecommendation.result.recommendation.strategy
              = "Try different approach"
        /\ recommended.strategyRecommendation.result.recommendation.tryDifferentApproach

\* C13 amended: for a stagnant history and every iteration number, the
\* recommender returns "try a different approach" with tryDifferentApproach =
\* true when no service is configured, its call fails or its reply does not
\* parse; a reply that parses is returned as the recommendation as it is,
\* next to trends that report stagnant = true.
C13_StagnantFallback ==
    (recommended.done /\ MeanTiny(recommended.mseHistory)) =>
        LET r == recommended.strategyRecommendation.result
        IN  /\ RuleBased =>
                  /\ ~r.recommendation.isNull
                  /\ r.recommendation.strategy = "Try different approach"
                  /\ r.recommendation.tryDifferentApproach
            /\ ~RuleBased =>
                  /\ r.recommendation = recommended.reply.value
                  /\ r.trends.stagnant

\* C13 witness: the stagnant history of the spec, a service whose reply does
\* not parse, at an iteration below 10.
C13_Witness ==
    /\ recommended.done
    /\ anthropic
    /\ recommended.reply.kind = "text"
    /\ recommended.mseHistory = <<2000, 1999, 2001, 1998>>
    /\ recommended.iterationNumber = 5
    /\ recommended.strategyRecommendation.result.recommendation.tryDifferentApproach

\* C14: the trends reported for a history h are those of its last
\* min(5, len(h)) samples: averageImprovement is the mean of previous -
\* current, trend is improving iff that mean is positive and declining
\* otherwise, stagnant iff its magnitude is below 0.001; with fewer than two
\* samples the trend is insufficient_data and stagnant is false.
C14_TrendOfWindow ==
    (recommended.done /\ anthropic) =>
        LET h == recommended.mseHistory
            t == recommended.strategyRecommendation.result.trends
        IN  IF Len(h) < 2
            THEN t.trend = "insufficient_data" /\ ~t.stagnant
            ELSE /\ t.avgImprovement.den > 0
                 /\ t.avgImprovement.num * (Len(Window(h)) - 1)
                       = Drop(h) * t.avgImprovement.den
                 /\ t.trend = IF MeanPositive(h) THEN "improving" ELSE "declining"
                 /\ t.stagnant <=> MeanTiny(h)

\* C14 witness: six samples of which only the first differs, so that the
\* window of five is flat: declining and stagnant.
C14_Witness ==
    /\ recommended.done
    /\ anthropic
    /\ Len(recommended.mseHistory) = 6
    /\ recommended.mseHistory[1] > recommended.mseHistory[2]
    /\ recommended.strategyRecommendation.result.trends.stagnant
    /\ recommended.strategyRecommendation.result.trends.trend = "declining"

\* C15: with fewer than two samples the rule-based path neither selects the
\* not-improving rung nor sets tryDifferentApproach.
C15_ExploreFreely ==
    (RuleBased /\ Len(recommended.mseHistory) < 2) =>
        /\ recommended.strategyRecommendation.result.recommendation.strategy
              # "Simplify and regularize"
        /\ ~recommended.strategyRecommendation.result.recommendation.tryDifferentApproach

\* C16: an iteration whose pipeline ran with success but reported no metric
\* leaves bestMSE, bestCode and mseHistory as they were and writes nothing
\* under the best-result key.
C16_AbsentMetricNotImproving ==
    [][(/\ pc = "loop"
        /\ currentState'.iteration = currentState.iteration + 1
        /\ <<CodeOf(currentState'.iteration), undefined>> \in tested')
       => (/\ currentState'.bestMSE = currentState.bestMSE
           /\ currentState'.bestCode = currentState.bestCode
           /\ currentState'.mseHistory = currentState.mseHistory
           /\ ltmWrites'[BestKey] = ltmWrites[BestKey])]_vars

C18_IterationRecordLogged ==
    [][(/\ pc = "loop"
        /\ currentState'.iteration = currentState.iteration + 1
        /\ ~(lastWrite'.layer = "session"
              /\ lastWrite'.key = ErrorKey(currentState'.iteration)))
       => \E i \in 1..Len(memory') :
              /\ memory'[i].metadata.timestamp > clock
              /\ memory'[i].key # ErrorKey(currentState'.iteration)]_vars

\* the decision of the pass carried an action text
ChoseAction ==
    /\ analyzed.done
    /\ analyzed.contextAnalysis.success
    /\ ~analyzed.contextAnalysis.result.decision.isNull
    /\ analyzed.contextAnalysis.result.decision.action # NoAction

ChosenAction == ToLowerCase(analyzed.contextAnalysis.result.decision.action)

\* the phase the claim reads off an action text
PhaseOfText(a, previous) ==
    IF Includes(a, "init") THEN "initialization"
    ELSE IF Includes(a, "optim") \/ Includes(a, "pipeline") \/ Includes(a, "model")
    THEN "optimization"
    ELSE IF Includes(a, "eval") \/ Includes(a, "test") \/ Includes(a, "final")
    THEN "evaluation"
    ELSE previous

\* the action goes to the data-preparation executor
DataPreparationRan(a) ==
    /\ Includes(a, "data") \/ Includes(a, "download")
    /\ ~(Includes(a, "optim") \/ Includes(a, "pipeline") \/ Includes(a, "model")
          \/ Includes(a, "tune") \/ Includes(a, "feature")
          \/ Includes(a, "indicator"))

\* C19 as claimed: after an iteration the phase is the one read off the
\* chosen action's text alone, whatever the iteration number and the
\* executor.
C19_PhaseFromTextOriginal ==
    ChoseAction =>
        /\ currentState.phase \in Phases
        /\ currentState.phase
              = PhaseOfText(ChosenAction, analyzed.currentState.phase)

\* C19 amended: after an iteration whose decision was executed the phase is
\* one of the three phases: optimization when the data-preparation executor
\* ran; otherwise initialization when the action contains 'init' or the
\* iteration number is 1; otherwise the phase read off the action's text.
\* When the decision was not executed the phase is the previous one.
C19_PhaseAfterIteration ==
    analyzed.done =>
        /\ currentState.phase \in Phases
        /\ (ChoseAction /\ analyzed.executed) =>
              currentState.phase =
                 IF DataPreparationRan(ChosenAction) THEN "optimization"
                 ELSE IF currentState.iteration = 1 THEN "initialization"
                 ELSE PhaseOfText(ChosenAction, analyzed.currentState.phase)
        /\ ~analyzed.executed =>
              currentState.phase = analyzed.currentState.phase

\* C19 witness: in iteration 3 the phase moved back from evaluation to
\* initialization.
C19_Witness ==
    /\ ChoseAction
    /\ analyzed.executed
    /\ currentState.iteration = 3
    /\ analyzed.currentState.phase = "evaluation"
    /\ currentState.phase = "initialization"

\* C20: a read issued right after a write of key k with value v, in the
\* same layer, returns v; a read of a key the layer does not hold returns
\* the not-found result; and no read or search changes either layer or its
\* file.
C20_ReadAfterWrite ==
    /\ []((lastRead.op = "retrieve" /\ lastWrite.layer = lastRead.layer
              /\ lastWrite.key = lastRead.key)
            => (lastRead.result.success
                /\ lastRead.result.value = lastWrite.value))
    /\ []((lastRead.op = "retrieve" /\ ~HasKey(LayerOf(lastRead), lastRead.key))
            => lastRead.result = [success |-> FALSE, value |-> null])
    /\ []((lastRead.op = "search")
            => (lastRead.result.success
                /\ lastRead.result.count = Len(lastRead.result.results)))
    /\ [][(lastRead' # lastRead /\ lastRead'.op # "none")
            => (/\ memory' = memory
                /\ longTermMemory' = longTermMemory
                /\ memoryFile' = memoryFile
                /\ longTermFile' = longTermFile)]_vars

\* C20 witness: the second key of the persistent layer was overwritten and
\* then read back.
C20_Witness ==
    /\ lastRead.op = "retrieve"
    /\ lastRead.layer = "persistent"
    /\ lastWrite.layer = "persistent"
    /\ lastWrite.key = lastRead.key
    /\ Len(longTermMemory) = 2
    /\ longTermMemory[2].key = lastRead.key
    /\ Len(ltmWrites[lastRead.key]) = 2
    /\ lastRead.result.value = lastWrite.value

\* the spellings of a text that differ from it in letter case only
CaseVariants(text) ==
    CASE text \in {"k", "K"} -> {"k", "K"}
      [] text \in {"k1", "K1"} -> {"k1", "K1"}
      [] text \in {"k2", "K2"} -> {"k2", "K2"}
      [] OTHER -> {text}

\* the text contains the query when letter case is ignored
ContainsIgnoringCase(text, query) ==
    \E t \in CaseVariants(text), q \in CaseVariants(query) : StringIncludes(t, q)

\* the positions of a layer whose key or serialized value contains the query
Hits(layer, query) ==
    {i \in 1..Len(layer) :
        \/ ContainsIgnoringCase(layer[i].key, query)
        \/ ContainsIgnoringCase(JsonStringify(layer[i].value), query)}

\* the j-th smallest member of a set of positions
Nth(positions, j) ==
    CHOOSE i \in positions : Cardinality({m \in positions : m < i}) = j - 1

\* a layer keeps its keys where they were first put: a step may append a key
\* but never moves or removes one
KeyOrderKept(before, after) ==
    /\ Len(after) >= Len(before)
    /\ \A i \in 1..Len(before) : after[i].key = before[i].key

\* C21: a search returns exactly the entries of the layer whose key or
\* serialized value contains the query, letter case ignored, in the order in
\* which their keys were first put into the layer (an overwritten key keeps
\* its place), and an empty list with count 0 when nothing matches.
C21_SearchInInsertionOrder ==
    /\ [](lastRead.op = "search" =>
            LET layer == LayerOf(lastRead)
                hits == Hits(layer, lastRead.key)
                results == lastRead.result.results
            IN  /\ lastRead.result.count = Cardinality(hits)
                /\ Len(results) = Cardinality(hits)
                /\ hits = {} => results = <<>>
                /\ \A j \in 1..Len(results) :
                      /\ results[j].key = layer[Nth(hits, j)].key
                      /\ results[j].value = layer[Nth(hits, j)].value
                      /\ results[j].metadata = layer[Nth(hits, j)].metadata)
    /\ [][/\ KeyOrderKept(memory, memory')
          /\ KeyOrderKept(longTermMemory, longTermMemory')]_vars

\* C21 witness: the persistent layer got k1, then K2, then k1 again, and a
\* search for "K" returned k1 before K2.
C21_Witness ==
    /\ lastRead.op = "search"
    /\ lastRead.layer = "persistent"
    /\ lastRead.key = "K"
    /\ Len(ltmWrites["k1"]) = 2
    /\ lastRead.result.count = 2
    /\ lastRead.result.results[1].key = "k1"
    /\ lastRead.result.results[2].key = "K2"
    /\ longTermMemory[1].metadata.timestamp > longTermMemory[2].metadata.timestamp

\* the action names of an options list, in order
ActionsOf(options) == [i \in 1..Len(options) |-> options[i].action]

\* the catalog of a phase: the table of that phase, the optimization table
\* for any other phase value
Catalog(phase) ==
    CASE phase = "initialization" -> InitializationOptions
      [] phase = "evaluation" -> EvaluationOptions
      [] OTHER -> OptimizationOptions

\* C22: getExecutionOptions returns, in catalog order, the table of the
\* requested phase for initialization, optimization and evaluation and the
\* optimization table for any other phase value, and the list is the same
\* whether the advisory service is absent, ranks the options or fails.
C22_OptionsFromCatalog ==
    toolCall.done =>
        LET options == toolCall.result.result.options
        IN  /\ toolCall.result.success
            /\ options.kind = "list"
            /\ ActionsOf(options.list) = Catalog(toolCall.currentPhase)
            /\ \A reply \in RankingReplies :
                  options = GetExecutionOptions(FALSE, reply,
                                toolCall.currentPhase,
                                toolCall.currentState).options

\* C23: each iteration of runAutonomous sends exactly one request to the
\* advisory service.
C23_OneRequestPerIteration ==
    analyzed.done => analyzed.requests = 1

\* the positions of a tool in the calls of one decision
CallsOf(calls, tool) == {i \in 1..Len(calls) : calls[i] = tool}

\* the tools the three executors run
ExecutorTools ==
    {"generateMLPipeline", "testMLPipeline", "calculateCryptoIndicators",
     "analyzeBinanceData"}

\* C25: in an iteration that gets past context analysis and option
\* discovery the recommender is invoked iff the phase at that point is
\* optimization and mseHistory is non-empty; it is invoked at most once, and
\* never after a tool of the executed action.
C25_RecommenderBeforeAction ==
    analyzed.done =>
        LET calls == analyzed.calls
            asked == CallsOf(calls, "recommendOptimizationStrategy")
            before == analyzed.currentState
        IN  /\ Cardinality(asked) <= 1
            /\ asked # {} <=>
                  /\ CallsOf(calls, "getExecutionOptions") # {}
                  /\ before.phase = "optimization"
                  /\ before.mseHistory # <<>>
            /\ \A i \in asked, j \in 1..Len(calls) :
                  calls[j] \in ExecutorTools => i < j
            /\ \A i \in asked :
                  /\ i = 3
                  /\ calls[1] = "analyzeContext"
                  /\ calls[2] = "getExecutionOptions"

\* C25 witness: the recommender was asked in the optimization phase and the
\* pipeline was generated and tested after it.
C25_Witness ==
    /\ analyzed.done
    /\ analyzed.currentState.phase = "optimization"
    /\ analyzed.calls = <<"analyzeContext", "getExecutionOptions",
                          "recommendOptimizationStrategy", "generateMLPipeline",
                          "testMLPipeline">>
    /\ Len(currentState.mseHistory) = 2

\* C27: in an iteration in which a strategy recommendation was obtained, the
\* prompt handed to pipeline generation is built from the recommendation's
\* strategy and technique, not from the default text.
C27_PromptFromRecommendation ==
    (/\ analyzed.done
     /\ analyzed.obtained
     /\ CallsOf(analyzed.calls, "generateMLPipeline") # {})
        => /\ analyzed.prompt.strategy # DefaultStrategy
           /\ analyzed.prompt.technique # DefaultTechnique

\* the entry of the persistent layer under the best-result key
BestEntry == longTermMemory[FindIndex(longTermMemory, BestKey)]

\* a measured metric lies strictly below the best
StrictlyBelow(mse, best) ==
    /\ mse.t = "number"
    /\ best.t = "Infinity" \/ (best.t = "number" /\ mse.v < best.v)

\* C26: in runAutonomous, whenever bestMSE is finite the persistent layer's
\* entry under 'best_pipeline_autonomous' holds a metric equal to bestMSE,
\* right after startup recovery and after every iteration; an iteration
\* whose metric is not strictly below bestMSE never writes that key.
C26_BestKeyHoldsBest ==
    /\ []((pc \in {"loop", "done"} /\ IsNumber(currentState.bestMSE))
            => (/\ HasKey(longTermMemory, BestKey)
                /\ BestEntry.value.mse = currentState.bestMSE))
    /\ [][(pc = "loop" /\ ltmWrites'[BestKey] # ltmWrites[BestKey])
            => \E pair \in tested' \ tested :
                  StrictlyBelow(pair[2], currentState.bestMSE)]_vars

\* C26 witness: a best of 0.04 was recovered at startup, an iteration
\* measured 0.04 again, and the key was not written.
C26_Witness ==
    /\ pc \in {"loop", "done"}
    /\ startBest.mse = Num(4)
    /\ currentState.bestMSE = Num(4)
    /\ \E pair \in tested : pair[2] = Num(4)
    /\ ltmWrites[BestKey] = <<>>
    /\ BestEntry.value.mse = Num(4)

\* C24: runOptimizationLoop returns success at the end of the first
\* iteration whose measured MSE is <= mseThreshold, whatever long-term
\* memory held at the start, and otherwise returns after exactly
\* maxIterations iterations.
C24_ReturnsAtThreshold ==
    /\ [][(pc = "loop" /\ loop.measured
              /\ JsLe(loop.lastMSE, config.mseThreshold))
            => (/\ pc' = "done"
                /\ loop'.iteration = loop.iteration
                /\ result'.success
                /\ result'.iterations = loop.iteration)]_vars
    /\ []((pc = "done" /\ loop.measured
              /\ JsLe(loop.lastMSE, config.mseThreshold))
            => (result.success /\ result.iterations = loop.iteration))
    /\ []((pc = "done" /\ ~(loop.measured
                             /\ JsLe(loop.lastMSE, config.mseThreshold)))
            => (result.iterations = config.maxIterations
                /\ loop.iteration = config.maxIterations))

\* the metric recorded under 'best_pipeline'
RecordedBest ==
    longTermMemory[FindIndex(longTermMemory, LoopBestKey)].value.mse

\* C28: across runs of runOptimizationLoop that share one long-term memory
\* the MSE recorded under 'best_pipeline' never increases, whatever
\* threshold each run uses.
C28_RecordedBestNeverIncreases ==
    [][HasKey(longTermMemory, LoopBestKey)
          => (/\ HasKey(longTermMemory', LoopBestKey)
              /\ ~JsLt(RecordedBest, RecordedBest'))]_vars

\* C29: executeTool raises only when no tool of that name is registered;
\* for a registered tool an exception of the tool comes back as
\* {success: false, tool, error} and a returned value r as
\* {success: true, tool, result: r}, also when r itself reports a failure.
C29_ToolFailuresWrapped ==
    toolCall.done =>
        LET w == toolCall.result
            registered == toolCall.toolName \in tools
        IN  /\ w.thrown <=> ~registered
            /\ (registered /\ toolCall.outcome.outcome = "throw")
                  => (~w.success /\ w.tool = toolCall.toolName /\ w.error # "")
            /\ (registered /\ toolCall.outcome.outcome = "return")
                  => (/\ w.success
                      /\ w.tool = toolCall.toolName
                      /\ w.result = toolCall.outcome.result)

\* C29 witness: a registered tool returned a result that reports failure,
\* and the wrapper around it says success.
C29_Witness ==
    /\ toolCall.done
    /\ toolCall.toolName = "testMLPipeline"
    /\ toolCall.outcome.outcome = "return"
    /\ ~toolCall.outcome.result.success
    /\ toolCall.result.success
    /\ ~toolCall.result.result.success

\* a write of key k returned on the agent of session sid after time t
WroteAfter(k, sid, t) ==
    \E i \in 1..Len(ltmWrites[k]) :
        /\ ltmWrites[k][i].metadata.sessionId = sid
        /\ ltmWrites[k][i].metadata.timestamp > t

\* C30: when two agents have been constructed on the same long-term memory
\* file and each has then stored a different key, in either order, the file
\* contains both keys.
C30_BothWritersKept ==
    \A k1 \in Keys : \A k2 \in Keys \ {k1} :
        (/\ peer.alive
         /\ WroteAfter(k1, sessionId, peer.born)
         /\ WroteAfter(k2, peer.sessionId, peer.born))
            => (/\ HasKey(longTermFile.entries, k1)
                /\ HasKey(longTermFile.entries, k2))

====
